---- MODULE Spec2Model ----
(***************************************************************************)
(* A model of the query-optimization teaching engine: the typed tuple      *)
(* store with per-column histograms (schema.h), the execution driver with  *)
(* its Filter and Join steps (executor.h), the planners that emit the step *)
(* lists (planner.h), the query parser (parser.cpp), the Project and       *)
(* Filter operators, the IKKBZ optimizer (join_order.cpp) and the learned  *)
(* index (learned_index.cpp).                                              *)
(*                                                                         *)
(* Data representation.  A Field is a record holding its tag and both      *)
(* alternatives of the variant (the unused one at a default), a string is  *)
(* the sequence of its character codes, a vector is a sequence (index 1 of *)
(* the model is index 0 of the code).  The bucket vector of a histogram is *)
(* kept sparse: a function from the indices that hold a non-zero counter;  *)
(* every index of 0..numBuckets-1 outside its domain holds 0.              *)
(***************************************************************************)
EXTENDS Integers, Sequences, FiniteSets, Bags, TLC

(***************************************************************************)
(* Bounds of the model.                                                    *)
(***************************************************************************)
MaxCols == 2
MaxRows == 2
MaxFailed == 1

(***************************************************************************)
(* Program constants.                                                      *)
(***************************************************************************)
INT_MAX == 2147483647
INT_MIN == -2147483647 - 1
IntBuckets == 2000
IntHistMin == 0
IntHistMax == 1000000
StringBuckets == 200

Min2(a, b) == IF a < b THEN a ELSE b
Max2(a, b) == IF a > b THEN a ELSE b

\* whether the int subtraction a - b leaves the range of int
SubOverflows(a, b) ==
    \/ b > 0 /\ a < INT_MIN + b
    \/ b < 0 /\ a > INT_MAX + b

(***************************************************************************)
(* Field (schema.h 18-139)                                                 *)
(***************************************************************************)
IntField(n) == [type |-> "INTEGER", i |-> n, s |-> <<>>]
StrField(str) == [type |-> "STRING", i |-> 0, s |-> str]

\* std::string operator< : lexicographic on the character codes
RECURSIVE StrLess(_, _)
StrLess(a, b) ==
    IF b = <<>> THEN FALSE
    ELSE IF a = <<>> THEN TRUE
    ELSE IF Head(a) # Head(b) THEN Head(a) < Head(b)
    ELSE StrLess(Tail(a), Tail(b))

\* The six comparison operators of Field; each throws on a tag mismatch.
\* The result is "T", "F" or "throw".
FieldCompare(op, a, b) ==
    IF a.type # b.type THEN "throw"
    ELSE LET eq == IF a.type = "INTEGER" THEN a.i = b.i ELSE a.s = b.s
             lt == IF a.type = "INTEGER" THEN a.i < b.i ELSE StrLess(a.s, b.s)
             r == CASE op = "EQUALS" -> eq
                    [] op = "NOT_EQUALS" -> ~eq
                    [] op = "LESS_THAN" -> lt
                    [] op = "LESS_THAN_OR_EQ" -> lt \/ eq
                    [] op = "GREATER_THAN" -> ~lt /\ ~eq
                    [] op = "GREATER_THAN_OR_EQ" -> ~lt
         IN IF r THEN "T" ELSE "F"

Ops == {"EQUALS", "GREATER_THAN", "LESS_THAN", "LESS_THAN_OR_EQ",
        "GREATER_THAN_OR_EQ", "NOT_EQUALS"}

(***************************************************************************)
(* IntHistogram (schema.h 165-225)                                         *)
(***************************************************************************)
\* bucketSize = std::max(1, (max - min + 1) / numBuckets) in int arithmetic.
\* min > max is the histogram of a column with no rows (min = INT_MAX,
\* max = INT_MIN): max - min + 1 overflows, and the wrapped difference (2) and
\* the exact one (-4294967294) both give a bucket size of 1.  A span of 2^31
\* or more overflows too; the wrapped difference is negative and gives 1.
BucketSize(numBuckets, min, max) ==
    IF min > max THEN 1
    ELSE IF SubOverflows(max, min) \/ max - min = INT_MAX THEN 1
    ELSE Max2(1, (max - min + 1) \div numBuckets)

IntHistogram(numBuckets, min, max) ==
    [buckets |-> [b \in {} |-> 0],
     numBuckets |-> numBuckets,
     minVal |-> min,
     maxVal |-> max,
     bucketSize |-> BucketSize(numBuckets, min, max),
     totalValues |-> 0]

BucketAt(h, b) == IF b \in DOMAIN h.buckets THEN h.buckets[b] ELSE 0

\* for minVal <= value <= maxVal
BucketIndex(h, value) ==
    Min2((value - h.minVal) \div h.bucketSize, h.numBuckets - 1)

\* addValue without the range test: every value is counted
addValueNoRange(h, value) ==
    LET bucketIndex == Max2(0, Min2((value - h.minVal) \div h.bucketSize,
                                    h.numBuckets - 1))
    IN [h EXCEPT
          !.buckets = [b \in (DOMAIN h.buckets) \cup {bucketIndex} |->
                         BucketAt(h, b) + (IF b = bucketIndex THEN 1 ELSE 0)],
          !.totalValues = @ + 1]

addValue(h, value) ==
    IF value >= h.minVal /\ value <= h.maxVal
    THEN LET bucketIndex == BucketIndex(h, value)
         IN [h EXCEPT
               !.buckets = [b \in (DOMAIN h.buckets) \cup {bucketIndex} |->
                              BucketAt(h, b) + (IF b = bucketIndex THEN 1 ELSE 0)],
               !.totalValues = @ + 1]
    ELSE h

RECURSIVE SumOver(_, _)
SumOver(f, S) ==
    IF S = {} THEN 0
    ELSE LET x == CHOOSE y \in S : TRUE IN f[x] + SumOver(f, S \ {x})

\* the sum of all bucket counters
BucketTotal(h) == SumOver(h.buckets, DOMAIN h.buckets)

\* What a read of the bucket vector outside 0..numBuckets-1 may return.
Garbage == {-1, 0, 1}

\* A double quotient count / static_cast<double>(totalValues) is kept as the
\* pair (num, den): den = 0 with num = 0 is NaN, den = 0 with num # 0 is an
\* infinity.  The result is the set of values the call may return; a thrown
\* exception is the record with ok = FALSE.
estimateSelectivity(h, op, value0) ==
    LET value == Min2(h.maxVal, Max2(h.minVal, value0))
        \* value - minVal overflows when minVal = INT_MAX and maxVal = INT_MIN
        \* (value is then INT_MIN): the wrapped difference is 1, the exact one is
        \* negative and indexes before the vector (-1 stands for that index).
        indices == IF h.minVal > h.maxVal THEN {Min2(1, h.numBuckets - 1), -1}
                   ELSE {BucketIndex(h, value)}
        Sel(bucketIndex) ==
            CASE op = "EQUALS" ->
                   IF bucketIndex >= 0
                   THEN {[ok |-> TRUE, num |-> BucketAt(h, bucketIndex),
                          den |-> h.totalValues]}
                   ELSE {[ok |-> TRUE, num |-> g, den |-> h.totalValues] :
                           g \in Garbage}
              [] op = "GREATER_THAN" ->
                   \* size_t i = bucketIndex: a negative index starts past the end
                   {[ok |-> TRUE,
                     num |-> IF bucketIndex >= 0
                             THEN SumOver(h.buckets,
                                    {b \in DOMAIN h.buckets : b >= bucketIndex})
                             ELSE 0,
                     den |-> h.totalValues]}
              [] op = "LESS_THAN" ->
                   {[ok |-> TRUE,
                     num |-> SumOver(h.buckets,
                               {b \in DOMAIN h.buckets : b <= bucketIndex}),
                     den |-> h.totalValues]}
              [] OTHER -> {[ok |-> FALSE, num |-> 0, den |-> 0]}
    IN UNION {Sel(bucketIndex) : bucketIndex \in indices}

(***************************************************************************)
(* StringHistogram (schema.h 227-271)                                      *)
(***************************************************************************)
Shift8(k) == CASE k = 0 -> 1 [] k = 1 -> 256 [] k = 2 -> 65536 [] k = 3 -> 16777216

\* the packed value before clamping
StrPack(str) ==
    LET Byte(k) == IF k <= Len(str) THEN str[k] * Shift8(4 - k) ELSE 0
    IN Byte(1) + Byte(2) + Byte(3) + Byte(4)

ZZZZ == <<122, 122, 122, 122>>
StrMinVal == StrPack(<<>>)
StrMaxVal == StrPack(ZZZZ)

stringToInt(str) ==
    IF str = <<>> \/ str = ZZZZ THEN StrPack(str)
    ELSE Min2(Max2(StrPack(str), StrMinVal), StrMaxVal)

StringHistogram(numBuckets) == IntHistogram(numBuckets, StrMinVal, StrMaxVal)

(***************************************************************************)
(* Column and Table (schema.h 273-430)                                     *)
(***************************************************************************)
\* hist is *intHistogram of an INTEGER column and stringHistogram->hist of a
\* STRING column; the other pointer is null.
Column(name, tableName, type) ==
    [name |-> name, tableName |-> tableName, type |-> type,
     hist |-> IF type = "INTEGER"
              THEN IntHistogram(IntBuckets, IntHistMin, IntHistMax)
              ELSE StringHistogram(StringBuckets)]

Table(name) == [name |-> name, columns |-> <<>>, data |-> <<>>]

addColumn(t, name, tableName, type) ==
    [t EXCEPT !.columns = Append(@, Column(name, tableName, type))]

\* The loop of addRow over the fields from position k on: the columns with
\* the histograms updated so far, and whether a field's tag mismatched.
RECURSIVE AddRowLoop(_, _, _)
AddRowLoop(cols, row, k) ==
    IF k > Len(row) THEN [ok |-> TRUE, columns |-> cols]
    ELSE IF row[k].type # cols[k].type THEN [ok |-> FALSE, columns |-> cols]
    ELSE AddRowLoop(
           [cols EXCEPT ![k].hist =
              IF cols[k].type = "INTEGER" THEN addValue(@, row[k].i)
              ELSE addValue(@, stringToInt(row[k].s))],
           row, k + 1)

\* addRow: the table it leaves and whether it returned (ok) or threw.
addRow(t, row) ==
    IF Len(row) # Len(t.columns) THEN [ok |-> FALSE, table |-> t]
    ELSE LET r == AddRowLoop(t.columns, row, 1)
         IN IF r.ok
            THEN [ok |-> TRUE,
                  table |-> [t EXCEPT !.columns = r.columns, !.data = Append(@, row)]]
            ELSE [ok |-> FALSE, table |-> [t EXCEPT !.columns = r.columns]]

\* getColumnIndex: the first position with that name and owner, 0 if it throws
getColumnIndex(t, columnName, tableName) ==
    LET hits == {k \in 1..Len(t.columns) :
                   t.columns[k].name = columnName /\ t.columns[k].tableName = tableName}
    IN IF hits = {} THEN 0 ELSE CHOOSE k \in hits : \A j \in hits : k <= j

\* Every row holds an integer at every integer column: what the loops of
\* recomputeHistogramsForIntegerColumn read (row[columnIndex].getIntValue()).
Readable(t) ==
    \A r \in 1..Len(t.data) : \A k \in 1..Len(t.columns) :
        t.columns[k].type = "INTEGER" =>
            k <= Len(t.data[r]) /\ t.data[r][k].type = "INTEGER"

RECURSIVE ScanMin(_, _, _, _)
ScanMin(data, k, r, minVal) ==
    IF r > Len(data) THEN minVal
    ELSE ScanMin(data, k, r + 1, IF data[r][k].i < minVal THEN data[r][k].i ELSE minVal)

RECURSIVE ScanMax(_, _, _, _)
ScanMax(data, k, r, maxVal) ==
    IF r > Len(data) THEN maxVal
    ELSE ScanMax(data, k, r + 1, IF data[r][k].i > maxVal THEN data[r][k].i ELSE maxVal)

RECURSIVE Ingest(_, _, _, _)
Ingest(h, data, k, r) ==
    IF r > Len(data) THEN h
    ELSE Ingest(addValue(h, data[r][k].i), data, k, r + 1)

RecomputedHist(data, k) ==
    Ingest(IntHistogram(IntBuckets, ScanMin(data, k, 1, INT_MAX),
                        ScanMax(data, k, 1, INT_MIN)),
           data, k, 1)

recomputeHistogramsForIntegerColumn(t) ==
    [t EXCEPT !.columns =
        [k \in 1..Len(t.columns) |->
            IF t.columns[k].type = "INTEGER"
            THEN [t.columns[k] EXCEPT !.hist = RecomputedHist(t.data, k)]
            ELSE t.columns[k]]]

(***************************************************************************)
(* Query components (test_bench/parser.h).  One record shape serves both   *)
(* classes: a join has no rhsValue of its own and a scalar filter no       *)
(* rhsTable / rhsColumn.                                                   *)
(***************************************************************************)
ScalarFilterComponent(lhsTable, lhsColumn, predicate, rhsValue) ==
    [kind |-> "filter", lhsTable |-> lhsTable, lhsColumn |-> lhsColumn,
     predicate |-> predicate, rhsValue |-> rhsValue,
     rhsTable |-> "", rhsColumn |-> ""]

JoinComponent(lhsTable, lhsColumn, rhsTable, rhsColumn) ==
    [kind |-> "join", lhsTable |-> lhsTable, lhsColumn |-> lhsColumn,
     predicate |-> "EQUALS", rhsValue |-> IntField(0),
     rhsTable |-> rhsTable, rhsColumn |-> rhsColumn]

(***************************************************************************)
(* Executor (test_bench/executor.h).  Tables live in a heap, a sequence of *)
(* Table values; a shared_ptr<Table> is a position in it.  make_shared     *)
(* appends to the heap.                                                    *)
(***************************************************************************)
\* the loops "for col in getColumns(): addColumn(col.name, col.baseTableName,
\* col.type)" from column k on
RECURSIVE CopyColumns(_, _, _)
CopyColumns(t, cols, k) ==
    IF k > Len(cols) THEN t
    ELSE CopyColumns(addColumn(t, cols[k].name, cols[k].tableName, cols[k].type),
                     cols, k + 1)

\* the row loop with the matching rows put in front of the output
RECURSIVE FilterRowsFront(_, _, _, _, _, _, _)
FilterRowsFront(t, filteredTable, baseTableName, column, op, value, r) ==
    IF r > Len(t.data) THEN [ok |-> TRUE, table |-> filteredTable]
    ELSE LET colIndex == getColumnIndex(t, column, baseTableName)
         IN IF colIndex = 0 THEN [ok |-> FALSE, table |-> filteredTable]
            ELSE LET matches == FieldCompare(op, t.data[r][colIndex], value)
                 IN IF matches = "throw" THEN [ok |-> FALSE, table |-> filteredTable]
                    ELSE FilterRowsFront(
                           t,
                           IF matches = "T"
                           THEN [filteredTable EXCEPT !.data = <<t.data[r]>> \o @]
                           ELSE filteredTable,
                           baseTableName, column, op, value, r + 1)

\* The row loop of applyFilter from row r on.  The column is looked up once
\* per row, so a table with no rows never fails; a comparison of fields with
\* different tags throws.
RECURSIVE FilterRows(_, _, _, _, _, _, _)
FilterRows(t, filteredTable, baseTableName, column, op, value, r) ==
    IF r > Len(t.data) THEN [ok |-> TRUE, table |-> filteredTable]
    ELSE LET colIndex == getColumnIndex(t, column, baseTableName)
         IN IF colIndex = 0 THEN [ok |-> FALSE, table |-> filteredTable]
            ELSE LET matches == FieldCompare(op, t.data[r][colIndex], value)
                 IN IF matches = "throw" THEN [ok |-> FALSE, table |-> filteredTable]
                    ELSE FilterRows(
                           t,
                           IF matches = "T"
                           THEN [filteredTable EXCEPT !.data = Append(@, t.data[r])]
                           ELSE filteredTable,
                           baseTableName, column, op, value, r + 1)

\* applyFilter with the result written over the input table
applyFilterInPlace(h, table, baseTableName, column, op, value) ==
    LET t == h[table]
        filteredTable == CopyColumns(Table(t.name \o "_filtered"), t.columns, 1)
        r == FilterRows(t, filteredTable, baseTableName, column, op, value, 1)
    IN IF ~r.ok THEN [ok |-> FALSE, heap |-> h, id |-> 0]
       ELSE [ok |-> TRUE,
             heap |-> [h EXCEPT ![table] = recomputeHistogramsForIntegerColumn(r.table)],
             id |-> table]

\* applyFilter: whether it returned, the heap it leaves and the table it
\* returns.  When it throws, the table it was building is released.
applyFilter(h, table, baseTableName, column, op, value) ==
    LET t == h[table]
        filteredTable == CopyColumns(Table(t.name \o "_filtered"), t.columns, 1)
        r == FilterRows(t, filteredTable, baseTableName, column, op, value, 1)
    IN IF ~r.ok THEN [ok |-> FALSE, heap |-> h, id |-> 0]
       ELSE [ok |-> TRUE,
             heap |-> Append(h, recomputeHistogramsForIntegerColumn(r.table)),
             id |-> Len(h) + 1]

\* The inner loop of joinTables for one left row, from right row j on.
RECURSIVE JoinRightRows(_, _, _, _, _, _)
JoinRightRows(leftRow, rightTable, leftColIndex, rightColIndex, joinedTable, j) ==
    IF j > Len(rightTable.data) THEN [ok |-> TRUE, table |-> joinedTable]
    ELSE LET rightRow == rightTable.data[j]
             eq == FieldCompare("EQUALS", leftRow[leftColIndex], rightRow[rightColIndex])
         IN IF eq = "throw" THEN [ok |-> FALSE, table |-> joinedTable]
            ELSE JoinRightRows(
                   leftRow, rightTable, leftColIndex, rightColIndex,
                   IF eq = "T"
                   THEN [joinedTable EXCEPT !.data = Append(@, leftRow \o rightRow)]
                   ELSE joinedTable,
                   j + 1)

\* the same loop over the left rows for one right row
RECURSIVE JoinLeftRows(_, _, _, _, _, _)
JoinLeftRows(leftTable, rightRow, leftColIndex, rightColIndex, joinedTable, i) ==
    IF i > Len(leftTable.data) THEN [ok |-> TRUE, table |-> joinedTable]
    ELSE LET leftRow == leftTable.data[i]
             eq == FieldCompare("EQUALS", leftRow[leftColIndex], rightRow[rightColIndex])
         IN IF eq = "throw" THEN [ok |-> FALSE, table |-> joinedTable]
            ELSE JoinLeftRows(
                   leftTable, rightRow, leftColIndex, rightColIndex,
                   IF eq = "T"
                   THEN [joinedTable EXCEPT !.data = Append(@, leftRow \o rightRow)]
                   ELSE joinedTable,
                   i + 1)

\* the nested loops with the right table outside, from right row j on
RECURSIVE JoinRowsRightMajor(_, _, _, _, _, _)
JoinRowsRightMajor(leftTable, rightTable, leftColIndex, rightColIndex, joinedTable, j) ==
    IF j > Len(rightTable.data) THEN [ok |-> TRUE, table |-> joinedTable]
    ELSE LET inner == JoinLeftRows(leftTable, rightTable.data[j], leftColIndex,
                                   rightColIndex, joinedTable, 1)
         IN IF ~inner.ok THEN inner
            ELSE JoinRowsRightMajor(leftTable, rightTable, leftColIndex,
                                    rightColIndex, inner.table, j + 1)

\* The outer loop of joinTables from left row i on.
RECURSIVE JoinRows(_, _, _, _, _, _)
JoinRows(leftTable, rightTable, leftColIndex, rightColIndex, joinedTable, i) ==
    IF i > Len(leftTable.data) THEN [ok |-> TRUE, table |-> joinedTable]
    ELSE LET inner == JoinRightRows(leftTable.data[i], rightTable, leftColIndex,
                                    rightColIndex, joinedTable, 1)
         IN IF ~inner.ok THEN inner
            ELSE JoinRows(leftTable, rightTable, leftColIndex, rightColIndex,
                          inner.table, i + 1)

\* joinTables: both columns are looked up before the loops, so a missing
\* column fails on empty tables too.
joinTables(h, leftTable, rightTable, leftBaseTable, rightBaseTable, leftCol, rightCol) ==
    LET l == h[leftTable]
        r == h[rightTable]
        joinedTable ==
            CopyColumns(CopyColumns(Table(l.name \o "_" \o r.name \o "_joined"),
                                    l.columns, 1),
                        r.columns, 1)
        leftColIndex == getColumnIndex(l, leftCol, leftBaseTable)
        rightColIndex == getColumnIndex(r, rightCol, rightBaseTable)
    IN IF leftColIndex = 0 \/ rightColIndex = 0
       THEN [ok |-> FALSE, heap |-> h, id |-> 0]
       ELSE LET res == JoinRows(l, r, leftColIndex, rightColIndex, joinedTable, 1)
            IN IF ~res.ok THEN [ok |-> FALSE, heap |-> h, id |-> 0]
               ELSE [ok |-> TRUE,
                     heap |-> Append(h, recomputeHistogramsForIntegerColumn(res.table)),
                     id |-> Len(h) + 1]

\* a map that binds every key, old and new, to v
MapPutAll(m, n, v) == [x \in DOMAIN m \cup {n} |-> v]

\* the map m with key n bound to v
MapPut(m, n, v) == [x \in DOMAIN m \cup {n} |-> IF x = n THEN v ELSE m[x]]

\* the tables a component names, in the order the first pass looks them up
ComponentTables(c) ==
    IF c.kind = "filter" THEN <<c.lhsTable>> ELSE <<c.lhsTable, c.rhsTable>>

\* First pass of executeQuery from component i, table j of it on: every
\* table named is loaded from the catalog unless the map has it; getTable
\* throws on a name the catalog lacks.
RECURSIVE LoadTables(_, _, _, _, _)
LoadTables(sch, componentOrder, i, j, map) ==
    IF i > Len(componentOrder) THEN [ok |-> TRUE, map |-> map]
    ELSE LET names == ComponentTables(componentOrder[i])
         IN IF j > Len(names) THEN LoadTables(sch, componentOrder, i + 1, 1, map)
            ELSE IF names[j] \in DOMAIN map
            THEN LoadTables(sch, componentOrder, i, j + 1, map)
            ELSE IF names[j] \notin DOMAIN sch THEN [ok |-> FALSE, map |-> map]
            ELSE LoadTables(sch, componentOrder, i, j + 1,
                            MapPut(map, names[j], sch[names[j]]))

(***************************************************************************)
(* FilterOperator of the SQL front end (cpp_src/parser.cpp).               *)
(***************************************************************************)
\* what parseComparator returns
Comparators == {"=", ">", "<", ">=", "<="}

\* the filter lambda of Plan: one branch per comparator, true otherwise
FilterPredicate(comparator, field, rhs) ==
    CASE comparator = "=" -> FieldCompare("EQUALS", field, rhs)
      [] comparator = ">" -> FieldCompare("GREATER_THAN", field, rhs)
      [] comparator = "<" -> FieldCompare("LESS_THAN", field, rhs)
      [] comparator = ">=" -> FieldCompare("GREATER_THAN_OR_EQ", field, rhs)
      [] comparator = "<=" -> FieldCompare("LESS_THAN_OR_EQ", field, rhs)
      [] OTHER -> "T"

RECURSIVE FilterOperatorRows(_, _, _, _, _, _)
FilterOperatorRows(t, outputTable, index, comparator, rhs, r) ==
    IF r > Len(t.data) THEN [ok |-> TRUE, table |-> outputTable]
    ELSE LET keep == FilterPredicate(comparator, t.data[r][index], rhs)
         IN IF keep = "throw" THEN [ok |-> FALSE, table |-> outputTable]
            ELSE IF keep = "F"
            THEN FilterOperatorRows(t, outputTable, index, comparator, rhs, r + 1)
            ELSE LET a == addRow(outputTable, t.data[r])
                 IN IF ~a.ok THEN [ok |-> FALSE, table |-> a.table]
                    ELSE FilterOperatorRows(t, a.table, index, comparator, rhs, r + 1)

\* FilterOperator::execute on the table its child returns
FilterOperatorExecute(h, inputTable, comparator, tableName, tableColumn, rhs) ==
    LET t == h[inputTable]
        index == getColumnIndex(t, tableColumn, tableName)
        outputTable == CopyColumns(Table(t.name \o "_filtered"), t.columns, 1)
    IN IF index = 0 THEN [ok |-> FALSE, heap |-> h, id |-> 0]
       ELSE LET res == FilterOperatorRows(t, outputTable, index, comparator, rhs, 1)
            IN IF ~res.ok THEN [ok |-> FALSE, heap |-> h, id |-> 0]
               ELSE [ok |-> TRUE, heap |-> Append(h, res.table), id |-> Len(h) + 1]

(***************************************************************************)
(* ProjectOperator (cpp_src/parser.cpp 427-466, test_bench/executor.cpp    *)
(* 46-85: the same code).                                                  *)
(***************************************************************************)
\* The first loop of execute from requested name i, child column j on: every
\* child column with that name is added to the output, in the order of the
\* request, and its position goes into the std::set columnIndices.
RECURSIVE ProjectColumns(_, _, _, _, _, _)
ProjectColumns(inputTable, columnNames, i, j, outputTable, columnIndices) ==
    IF i > Len(columnNames)
    THEN [ok |-> TRUE, table |-> outputTable, columnIndices |-> columnIndices]
    ELSE IF j > Len(inputTable.columns)
    THEN ProjectColumns(inputTable, columnNames, i + 1, 1, outputTable, columnIndices)
    ELSE LET col == inputTable.columns[j]
         IN IF col.name # columnNames[i]
            THEN ProjectColumns(inputTable, columnNames, i, j + 1,
                                outputTable, columnIndices)
            ELSE LET index == getColumnIndex(inputTable, col.name, col.tableName)
                 IN IF index = 0
                    THEN [ok |-> FALSE, table |-> outputTable,
                          columnIndices |-> columnIndices]
                    ELSE ProjectColumns(inputTable, columnNames, i, j + 1,
                           addColumn(outputTable, col.name, col.tableName, col.type),
                           columnIndices \cup {index})

\* the members of a std::set<int> in iteration order, which is ascending
RECURSIVE SetInOrder(_)
SetInOrder(indices) ==
    IF indices = {} THEN <<>>
    ELSE LET least == CHOOSE k \in indices : \A x \in indices : k <= x
         IN <<least>> \o SetInOrder(indices \ {least})

\* The second loop of execute from row r on: the fields at the collected
\* positions, in ascending position, are added as one row.
RECURSIVE ProjectRows(_, _, _, _)
ProjectRows(inputTable, outputTable, indices, r) ==
    IF r > Len(inputTable.data) THEN [ok |-> TRUE, table |-> outputTable]
    ELSE LET outputRow == [k \in 1..Len(indices) |-> inputTable.data[r][indices[k]]]
             a == addRow(outputTable, outputRow)
         IN IF ~a.ok THEN [ok |-> FALSE, table |-> a.table]
            ELSE ProjectRows(inputTable, a.table, indices, r + 1)

\* ProjectOperator::execute on the table its child returns
ProjectOperatorExecute(h, inputTable, columnNames) ==
    LET t == h[inputTable]
        cols == ProjectColumns(t, columnNames, 1, 1, Table(t.name \o "_projected"), {})
    IN IF ~cols.ok THEN [ok |-> FALSE, heap |-> h, id |-> 0]
       ELSE LET res == ProjectRows(t, cols.table, SetInOrder(cols.columnIndices), 1)
            IN IF ~res.ok THEN [ok |-> FALSE, heap |-> h, id |-> 0]
               ELSE [ok |-> TRUE, heap |-> Append(h, res.table), id |-> Len(h) + 1]

(***************************************************************************)
(* Loading a table (test_bench/dataloader.cpp): columns, rows, recompute.  *)
(***************************************************************************)
RECURSIVE AddRows(_, _, _)
AddRows(t, rows, r) ==
    IF r > Len(rows) THEN t ELSE AddRows(addRow(t, rows[r]).table, rows, r + 1)

LoadTable(name, cols, rows) ==
    recomputeHistogramsForIntegerColumn(
        AddRows(CopyColumns(Table(name), cols, 1), rows, 1))

(***************************************************************************)
(* State.                                                                  *)
(*   tbl          a Table under construction (schema.h)                    *)
(*   pre          tbl as it was when the last call began, if that call threw*)
(*   last         the last call on tbl and whether it returned or threw    *)
(*   nfail        the number of addRow calls that threw                    *)
(*   recomputed   whether recomputeHistogramsForIntegerColumn has run      *)
(*   est          the last selectivities asked of a column of tbl          *)
(*   heap         the Table objects alive; a shared_ptr is a position      *)
(*   schema       Schema::tables, the catalog: name -> position in heap    *)
(*   schema0      the catalog's tables as loaded, by name                  *)
(*   tableMap     Executor::tableMap: name -> position in heap             *)
(*   order        the componentOrder executeQuery was called with          *)
(*   ip           the component the second pass of executeQuery is at      *)
(*   xstate       "idle", "running", "done" (executeQuery returned),       *)
(*                "aborted" (it threw), "operator" (a FilterOperator ran), *)
(*                "crashed" (the process ended in a fault)                 *)
(*   final        the finalTable of executeQuery, 0 if there is none       *)
(*   lastStep     the last filter or join executed, its input and output   *)
(*   query        the QueryComponents processQuery is working on           *)
(*   plans        the step lists of Planner::plans, in generation order    *)
(*   planIdx      the plan the loop of processQuery is at                  *)
(*   results      what each executed plan wrote as its result              *)
(*   queryLines   the query text handed to SimpleParser::parse             *)
(*   parsed       "none", "pending", "ok" or the exception parse threw     *)
(*   graph        the JoinGraph of the IKKBZ program                       *)
(*   optimized    what optimizeJoinOrder returned or threw                 *)
(*   learnedIndex the LearnedIndex object: data, model, operations         *)
(*   lastSearch   the last LearnedIndex::search call, its result and the   *)
(*                positions of data it read                                *)
(*   bestPlan     the plan getBestPlan returned, as its position in plans; *)
(*                0 when it has not run                                    *)
(***************************************************************************)
VARIABLES tbl, pre, last, nfail, recomputed, est,
          heap, schema, schema0, tableMap, order, ip, xstate, final, lastStep,
          query, plans, planIdx, results, bestPlan,
          queryLines, parsed, graph, optimized, learnedIndex, lastSearch

tableVars == <<tbl, pre, last, nfail, recomputed, est>>
execVars == <<heap, schema, schema0, tableMap, order, ip, xstate, final, lastStep>>
queryVars == <<query, plans, planIdx, results, bestPlan>>
parseVars == <<queryLines, parsed>>
ikkbzVars == <<graph, optimized>>
indexVars == <<learnedIndex, lastSearch>>
vars == <<tbl, pre, last, nfail, recomputed, est,
          heap, schema, schema0, tableMap, order, ip, xstate, final, lastStep,
          query, plans, planIdx, results, bestPlan,
          queryLines, parsed, graph, optimized, learnedIndex, lastSearch>>

ColNames == <<"c1", "c2", "c3", "c4">>
FieldTypes == {"INTEGER", "STRING"}

\* the values the rows of tbl are built from
FieldInputs == {IntField(-1), IntField(0), IntField(1000000), StrField(<<97>>)}
RowInputs == UNION {[1..n -> FieldInputs] : n \in 0..(MaxCols + 1)}
\* the operands selectivities are asked for
Operands == {IntField(-1), IntField(0), IntField(500), IntField(1000001),
             StrField(<<97>>)}

NoResult == [ok |-> FALSE, num |-> 0, den |-> 0]
NoEst == [col |-> 0, operand |-> IntField(0),
          eq |-> NoResult, gt |-> NoResult, lt |-> NoResult]

NoStep == [kind |-> "none", ok |-> TRUE, comp |-> JoinComponent("", "", "", ""),
           in1 |-> 0, in2 |-> 0, out |-> 0]

\* no table is under construction
TableIdle ==
    /\ tbl = Table("t")
    /\ pre = Table("t")
    /\ last = [op |-> "new", ok |-> TRUE]
    /\ nfail = 0
    /\ recomputed = FALSE
    /\ est = NoEst

\* no catalog is loaded and no executor exists
ExecIdle ==
    /\ heap = <<>>
    /\ schema = <<>>
    /\ schema0 = <<>>
    /\ tableMap = <<>>
    /\ order = <<>>
    /\ ip = 0
    /\ xstate = "idle"
    /\ final = 0
    /\ lastStep = NoStep

NoQuery == [tables |-> <<>>, scalarFilters |-> <<>>, joins |-> <<>>]

\* no query is being processed
QueryIdle ==
    /\ query = NoQuery
    /\ plans = <<>>
    /\ planIdx = 0
    /\ results = <<>>
    /\ bestPlan = 0

\* no query text has been handed to SimpleParser::parse
NoLines == [tables |-> <<>>, scalarFilters |-> <<>>, joins |-> <<>>]
ParseIdle ==
    /\ queryLines = NoLines
    /\ parsed = "none"

\* no join graph has been built
NoGraph == [relations |-> <<>>, conditions |-> <<>>, adjacencyList |-> <<>>]
NoOrder == [status |-> "none", joinOrder |-> <<>>]
IkkbzIdle ==
    /\ graph = NoGraph
    /\ optimized = NoOrder

\* no LearnedIndex has been constructed
NoIndex == [data |-> <<>>,
            model |-> [slope |-> [n |-> 0, d |-> 1], intercept |-> [n |-> 0, d |-> 1]],
            operations |-> 0]
NoSearch == [key |-> 0, type |-> "none", result |-> -1, steps |-> 0, reads |-> {}]
IndexIdle ==
    /\ learnedIndex = NoIndex
    /\ lastSearch = NoSearch

\* the parts of the state the other programs of the repository own
OthersIdle == ParseIdle /\ IkkbzIdle /\ IndexIdle

TableInit == TableIdle /\ ExecIdle /\ QueryIdle /\ OthersIdle

\* Table::addColumn
AddColumn(type) ==
    /\ Len(tbl.columns) < MaxCols
    /\ tbl' = addColumn(tbl, ColNames[Len(tbl.columns) + 1], "t", type)
    /\ pre' = Table("t")
    /\ last' = [op |-> "addColumn", ok |-> TRUE]
    /\ est' = NoEst
    /\ UNCHANGED <<nfail, recomputed>>
    /\ UNCHANGED <<execVars, queryVars, parseVars, ikkbzVars, indexVars>>

\* Table::addRow
AddRow(row) ==
    LET r == addRow(tbl, row)
    IN /\ IF r.ok THEN Len(tbl.data) < MaxRows ELSE nfail < MaxFailed
       /\ tbl' = r.table
       /\ pre' = IF r.ok THEN Table("t") ELSE tbl
       /\ last' = [op |-> "addRow", ok |-> r.ok]
       /\ nfail' = IF r.ok THEN nfail ELSE nfail + 1
       /\ est' = NoEst
       /\ UNCHANGED recomputed
       /\ UNCHANGED <<execVars, queryVars, parseVars, ikkbzVars, indexVars>>

\* Table::recomputeHistogramsForIntegerColumn, on a table whose rows it can read
Recompute ==
    /\ Readable(tbl)
    /\ tbl' = recomputeHistogramsForIntegerColumn(tbl)
    /\ pre' = Table("t")
    /\ last' = [op |-> "recompute", ok |-> TRUE]
    /\ recomputed' = TRUE
    /\ est' = NoEst
    /\ UNCHANGED nfail
    /\ UNCHANGED <<execVars, queryVars, parseVars, ikkbzVars, indexVars>>

\* Table::estimateSelectivity on column k for the three supported operators
HistEstimate(col, op, operand) ==
    IF col.type # operand.type THEN {NoResult}
    ELSE IF col.type = "INTEGER" THEN estimateSelectivity(col.hist, op, operand.i)
    ELSE estimateSelectivity(col.hist, op, stringToInt(operand.s))

Estimate(k, operand) ==
    /\ k \in 1..Len(tbl.columns)
    /\ \E e \in HistEstimate(tbl.columns[k], "EQUALS", operand),
          g \in HistEstimate(tbl.columns[k], "GREATER_THAN", operand),
          l \in HistEstimate(tbl.columns[k], "LESS_THAN", operand) :
          est' = [col |-> k, operand |-> operand, eq |-> e, gt |-> g, lt |-> l]
    /\ UNCHANGED <<tbl, pre, last, nfail, recomputed>>
    /\ UNCHANGED <<execVars, queryVars, parseVars, ikkbzVars, indexVars>>

TableNext ==
    \/ \E type \in FieldTypes : AddColumn(type)
    \/ \E row \in RowInputs : AddRow(row)
    \/ Recompute
    \/ \E k \in 1..MaxCols, operand \in Operands : Estimate(k, operand)

SpecTable == TableInit /\ [][TableNext]_vars

(***************************************************************************)
(* The executor on a loaded catalog.                                       *)
(***************************************************************************)
MaxSteps == 2
\* a join step is explored when its two inputs have at most this many row pairs
MaxJoinPairs == 25

I(n) == IntField(n)
S(str) == StrField(str)

ColSpec(name, tableName, type) == [name |-> name, tableName |-> tableName, type |-> type]
ACols == <<ColSpec("k", "A", "INTEGER"), ColSpec("s", "A", "STRING")>>
BCols == <<ColSpec("k", "B", "INTEGER")>>
CCols == <<ColSpec("k", "C", "INTEGER")>>

\* the rows of the data files the catalog is loaded from
RowsA3 == << <<I(1), S(<<97>>)>>, <<I(2), S(<<98>>)>>, <<I(1), S(<<98>>)>> >>
RowsB3 == << <<I(1)>>, <<I(1)>>, <<I(2)>> >>
RowsB2 == << <<I(2)>>, <<I(3)>> >>
RowsC2 == << <<I(2)>>, <<I(1)>> >>
DataFiles == {<<RowsA3, RowsB3, RowsC2>>, <<<<>>, RowsB2, <<>>>>}

Catalog(aRows, bRows, cRows) ==
    <<LoadTable("A", ACols, aRows), LoadTable("B", BCols, bRows),
      LoadTable("C", CCols, cRows)>>

\* the steps the executor is given: filters with each operator on an integer
\* and on a string column, joins in both directions and in a chain, and steps
\* that name a missing table or column or compare fields of different tags
ExecComponents ==
    {ScalarFilterComponent("A", "k", op, I(1)) : op \in Ops}
    \cup {ScalarFilterComponent("A", "s", op, S(<<98>>)) : op \in Ops}
    \cup {ScalarFilterComponent("A", "k", "EQUALS", S(<<97>>)),
          ScalarFilterComponent("A", "zz", "EQUALS", I(1)),
          ScalarFilterComponent("Z", "k", "EQUALS", I(1))}
    \cup {JoinComponent("A", "k", "B", "k"),
          JoinComponent("B", "k", "C", "k"), JoinComponent("A", "s", "B", "k"),
          JoinComponent("A", "zz", "B", "k")}

StepLists == UNION {[1..n -> ExecComponents] : n \in 0..MaxSteps}

\* the catalog loaded from the data files, and an Executor not yet used
CatalogLoaded(files) ==
    /\ heap = Catalog(files[1], files[2], files[3])
    /\ schema0 = [n \in {"A", "B", "C"} |->
                    CASE n = "A" -> LoadTable("A", ACols, files[1])
                      [] n = "B" -> LoadTable("B", BCols, files[2])
                      [] n = "C" -> LoadTable("C", CCols, files[3])]
    /\ schema = [n \in {"A", "B", "C"} |->
                    CASE n = "A" -> 1 [] n = "B" -> 2 [] n = "C" -> 3]
    /\ tableMap = <<>>
    /\ order = <<>>
    /\ ip = 0
    /\ xstate = "idle"
    /\ final = 0
    /\ lastStep = NoStep

CatalogInit == \E files \in DataFiles : CatalogLoaded(files)

ExecInit == TableIdle /\ CatalogInit /\ QueryIdle /\ OthersIdle

\* executeQuery up to the end of its first pass
BeginQuery(componentOrder) ==
    LET r == LoadTables(schema, componentOrder, 1, 1, <<>>)
    IN /\ order' = componentOrder
       /\ tableMap' = r.map
       /\ xstate' = IF r.ok THEN "running" ELSE "aborted"
       /\ ip' = 1
       /\ final' = 0
       /\ lastStep' = NoStep
       /\ UNCHANGED <<heap, schema, schema0>>

\* one iteration of the second pass of executeQuery
Step ==
    /\ xstate = "running"
    /\ ip <= Len(order)
    /\ LET c == order[ip]
       IN c.kind = "join" =>
            Len(heap[tableMap[c.lhsTable]].data) * Len(heap[tableMap[c.rhsTable]].data)
              <= MaxJoinPairs
    /\ LET c == order[ip]
       IN IF c.kind = "filter"
          THEN LET r == applyFilter(heap, tableMap[c.lhsTable], c.lhsTable,
                                    c.lhsColumn, c.predicate, c.rhsValue)
               IN /\ heap' = r.heap
                  /\ tableMap' = IF r.ok THEN MapPut(tableMap, c.lhsTable, r.id)
                                 ELSE tableMap
                  /\ xstate' = IF r.ok THEN "running" ELSE "aborted"
                  /\ lastStep' = [kind |-> "filter", ok |-> r.ok, comp |-> c,
                                  in1 |-> tableMap[c.lhsTable], in2 |-> 0,
                                  out |-> r.id]
          ELSE LET r == joinTables(heap, tableMap[c.lhsTable], tableMap[c.rhsTable],
                                   c.lhsTable, c.rhsTable, c.lhsColumn, c.rhsColumn)
               IN /\ heap' = r.heap
                  /\ tableMap' = IF r.ok
                                 THEN MapPut(MapPut(tableMap, c.lhsTable, r.id),
                                             c.rhsTable, r.id)
                                 ELSE tableMap
                  /\ xstate' = IF r.ok THEN "running" ELSE "aborted"
                  /\ lastStep' = [kind |-> "join", ok |-> r.ok, comp |-> c,
                                  in1 |-> tableMap[c.lhsTable],
                                  in2 |-> tableMap[c.rhsTable], out |-> r.id]
    /\ ip' = ip + 1
    /\ UNCHANGED <<schema, schema0, order, final>>

\* The end of executeQuery: finalTable is tableMap.begin()->second, the entry
\* the unordered_map happens to iterate first.
Finish ==
    /\ xstate = "running"
    /\ ip > Len(order)
    /\ IF DOMAIN tableMap = {} THEN final' = 0
       ELSE \E n \in DOMAIN tableMap : final' = tableMap[n]
    /\ xstate' = "done"
    /\ UNCHANGED <<heap, schema, schema0, tableMap, order, ip, lastStep>>

ExecuteQuery(componentOrder) ==
    /\ xstate = "idle"
    /\ BeginQuery(componentOrder)
    /\ UNCHANGED <<tableVars, queryVars, parseVars, ikkbzVars, indexVars>>

ExecStep == Step /\ UNCHANGED <<tableVars, queryVars, parseVars, ikkbzVars, indexVars>>

ExecFinish == Finish /\ UNCHANGED <<tableVars, queryVars, parseVars, ikkbzVars, indexVars>>

\* a FilterOperator of the SQL front end run over a scan of a catalog table
RunFilterOperator(n, comparator, tableColumn, rhs) ==
    /\ xstate = "idle"
    /\ LET r == FilterOperatorExecute(heap, schema[n], comparator, n, tableColumn, rhs)
       IN /\ heap' = r.heap
          /\ lastStep' = [kind |-> "filterOperator", ok |-> r.ok,
                          comp |-> ScalarFilterComponent(n, tableColumn, comparator, rhs),
                          in1 |-> schema[n], in2 |-> 0, out |-> r.id]
    /\ xstate' = "operator"
    /\ UNCHANGED <<schema, schema0, tableMap, order, ip, final>>
    /\ UNCHANGED <<tableVars, queryVars, parseVars, ikkbzVars, indexVars>>

\* the column lists asked of a ProjectOperator: any order, with repeated
\* names and with names the child lacks
ProjectLists ==
    {<<>>, <<"k">>, <<"s">>, <<"zz">>, <<"k", "s">>, <<"s", "k">>, <<"k", "k">>,
     <<"s", "zz", "k">>, <<"k", "s", "k">>}

\* a ProjectOperator run over a scan of a catalog table
RunProjectOperator(n, columnNames) ==
    /\ xstate = "idle"
    /\ LET r == ProjectOperatorExecute(heap, schema[n], columnNames)
       IN /\ heap' = r.heap
          /\ lastStep' = [kind |-> "projectOperator", ok |-> r.ok,
                          comp |-> [kind |-> "project", columnNames |-> columnNames],
                          in1 |-> schema[n], in2 |-> 0, out |-> r.id]
    /\ xstate' = "operator"
    /\ UNCHANGED <<schema, schema0, tableMap, order, ip, final>>
    /\ UNCHANGED <<tableVars, queryVars, parseVars, ikkbzVars, indexVars>>

ExecNext ==
    \/ \E componentOrder \in StepLists : ExecuteQuery(componentOrder)
    \/ ExecStep
    \/ ExecFinish
    \/ \E n \in {"A", "B"}, columnNames \in ProjectLists :
          RunProjectOperator(n, columnNames)
    \/ \E n \in {"A", "B"}, comparator \in Comparators,
          col \in {"k", "s"}, rhs \in {I(1), S(<<98>>)} :
          RunFilterOperator(n, comparator, col, rhs)

SpecExec == ExecInit /\ [][ExecNext]_vars

(***************************************************************************)
(* Planners (test_bench/planner.h) and processQuery (test_bench/main.cpp). *)
(***************************************************************************)
\* Table::estimateSelectivity(columnName, op, value): the column is found by
\* its name alone; the result is the set of selectivities the call can
\* return, NoResult when it throws.
TableEstimate(t, columnName, op, value) ==
    LET hits == {k \in 1..Len(t.columns) : t.columns[k].name = columnName}
    IN IF hits = {} THEN {NoResult}
       ELSE HistEstimate(t.columns[CHOOSE k \in hits : \A j \in hits : k <= j],
                         op, value)

\* whether estimateFilterCostAndSelectivity throws for some filter of q
PlanningThrows(h, sch, q) ==
    \E f \in 1..Len(q.scalarFilters) :
        LET c == q.scalarFilters[f]
        IN \/ c.lhsTable \notin DOMAIN sch
           \/ NoResult \in TableEstimate(h[sch[c.lhsTable]], c.lhsColumn,
                                          c.predicate, c.rhsValue)

(***************************************************************************)
(* The cost model of the planners (planner.h 18-77).  A cost is a double;  *)
(* here it is the exact fraction n / d, kept in lowest terms.  Sizes and   *)
(* histogram totals below 22 give products n * (count / total) whose       *)
(* truncation to size_t is the exact floor, so the sizes are exact too.    *)
(***************************************************************************)
RECURSIVE GCD(_, _)
GCD(a, b) == IF b = 0 THEN a ELSE GCD(b, a % b)

Cost(n, d) == LET g == GCD(n, d) IN IF g = 0 THEN [n |-> 0, d |-> 1]
                                    ELSE [n |-> n \div g, d |-> d \div g]
CostAdd(a, b) == Cost(a.n * b.d + b.n * a.d, a.d * b.d)
CostLess(a, b) == a.n * b.d < b.n * a.d
CostLeq(a, b) == a.n * b.d <= b.n * a.d

\* tableSizes[name] of an unordered_map<string, size_t>: a name that is not
\* a key reads as 0
SizeOf(sizes, name) == IF name \in DOMAIN sizes THEN sizes[name] ELSE 0

\* the tableSizes every generatePlan starts from, from components.tables
RECURSIVE InitialSizes(_, _, _, _, _)
InitialSizes(h, sch, tables, i, sizes) ==
    IF i > Len(tables) THEN sizes
    ELSE InitialSizes(h, sch, tables, i + 1,
                      MapPut(sizes, tables[i], Len(h[sch[tables[i]]].data)))

\* Plan::estimateFilterCostAndSelectivity: the selectivity comes from the
\* histogram of the catalog's table and inputSize is that table's row count,
\* whatever the current size in tableSizes is.
estimateFilterCostAndSelectivity(h, sch, tableName, column, op, value) ==
    LET table == h[sch[tableName]]
        selectivity == CHOOSE e \in TableEstimate(table, column, op, value) : TRUE
        inputSize == Len(table.data)
    IN [cost |-> Cost(inputSize * selectivity.den + inputSize * selectivity.num,
                      selectivity.den),
        selectivity |-> selectivity]

\* Plan::estimateJoinCostAndSelectivity: io = leftSize + rightSize,
\* cpu = leftSize * rightSize * 0.1
estimateJoinCostAndSelectivity(leftSize, rightSize) ==
    [cost |-> Cost(10 * (leftSize + rightSize) + leftSize * rightSize, 10),
     selectivity |-> [ok |-> TRUE, num |-> Min2(leftSize, rightSize),
                      den |-> Max2(leftSize, rightSize)]]

\* the filter loop with a size that grows by the selected part instead of
\* shrinking to it: size + size * selectivity
RECURSIVE FilterLoopGrow(_, _, _, _, _)
FilterLoopGrow(h, sch, filters, i, acc) ==
    IF i > Len(filters) THEN acc
    ELSE LET filter == filters[i]
             costAndSel == estimateFilterCostAndSelectivity(
                               h, sch, filter.lhsTable, filter.lhsColumn,
                               filter.predicate, filter.rhsValue)
             size == SizeOf(acc.sizes, filter.lhsTable)
             outputSize == size + (size * costAndSel.selectivity.num)
                                    \div costAndSel.selectivity.den
         IN FilterLoopGrow(h, sch, filters, i + 1,
                [totalCost |-> CostAdd(acc.totalCost, costAndSel.cost),
                 sizes |-> MapPut(acc.sizes, filter.lhsTable, outputSize),
                 steps |-> Append(acc.steps,
                               [kind |-> "Filter", table |-> filter.lhsTable,
                                sizeRead |-> size, cost |-> costAndSel.cost,
                                selectivity |-> costAndSel.selectivity,
                                outputSize |-> outputSize])])

\* The loop over components.scalarFilters every plan class has, from filter
\* i on: the cost is added to totalCost and the table's size becomes
\* static_cast<size_t>(size * selectivity).  A step is what the line pushed
\* to executionSteps prints (cost, selectivity, output size) with the value
\* of tableSizes[filter->lhsTable] the loop read.
RECURSIVE FilterLoop(_, _, _, _, _)
FilterLoop(h, sch, filters, i, acc) ==
    IF i > Len(filters) THEN acc
    ELSE LET filter == filters[i]
             costAndSel == estimateFilterCostAndSelectivity(
                               h, sch, filter.lhsTable, filter.lhsColumn,
                               filter.predicate, filter.rhsValue)
             size == SizeOf(acc.sizes, filter.lhsTable)
             outputSize == (size * costAndSel.selectivity.num)
                           \div costAndSel.selectivity.den
         IN FilterLoop(h, sch, filters, i + 1,
                [totalCost |-> CostAdd(acc.totalCost, costAndSel.cost),
                 sizes |-> MapPut(acc.sizes, filter.lhsTable, outputSize),
                 steps |-> Append(acc.steps,
                               [kind |-> "Filter", table |-> filter.lhsTable,
                                sizeRead |-> size, cost |-> costAndSel.cost,
                                selectivity |-> costAndSel.selectivity,
                                outputSize |-> outputSize])])

\* The loop over a list of joins from join i on: the cost at the current
\* sizes is added and both tables get the size of the smaller one.  A step
\* is what the pushed line prints with the two sizes the loop read.
RECURSIVE JoinLoop(_, _, _)
JoinLoop(joins, i, acc) ==
    IF i > Len(joins) THEN acc
    ELSE LET join == joins[i]
             leftSize == SizeOf(acc.sizes, join.lhsTable)
             rightSize == SizeOf(acc.sizes, join.rhsTable)
             costAndSel == estimateJoinCostAndSelectivity(leftSize, rightSize)
             outputSize == Min2(leftSize, rightSize)
         IN JoinLoop(joins, i + 1,
                     [totalCost |-> CostAdd(acc.totalCost, costAndSel.cost),
                      sizes |-> MapPut(MapPut(acc.sizes, join.lhsTable, outputSize),
                                       join.rhsTable, outputSize),
                      steps |-> Append(acc.steps,
                                    [kind |-> "Join", join |-> join,
                                     leftSize |-> leftSize, rightSize |-> rightSize,
                                     cost |-> costAndSel.cost,
                                     outputSize |-> outputSize])])

\* A plan object as its constructor leaves it: totalCost(0.0), an empty
\* componentExecutionOrder (order), executionSteps and tableSizes.  calls
\* counts the calls of generatePlan on the object.
PlanObject(name) ==
    [name |-> name, totalCost |-> Cost(0, 1), order |-> <<>>,
     tableSizes |-> <<>>, executionSteps |-> <<>>, calls |-> 0]

\* The start of every generatePlan: tableSizes[name] is assigned for the
\* tables of the query; totalCost and the other entries of tableSizes are
\* what the object holds.
StartOfPlan(self, h, sch, q) ==
    [totalCost |-> self.totalCost,
     sizes |-> InitialSizes(h, sch, q.tables, 1, self.tableSizes),
     steps |-> <<>>]

\* The members generatePlan leaves: the components and the lines it pushed
\* come after the ones the vectors held.
EndOfPlan(self, totalCost, pushed, sizes, steps) ==
    [self EXCEPT !.totalCost = totalCost,
                 !.order = self.order \o pushed,
                 !.tableSizes = sizes,
                 !.executionSteps = self.executionSteps \o steps,
                 !.calls = self.calls + 1]

\* JoinsFirstPlan::generatePlan
JoinsFirstPlan(self, h, sch, q) ==
    LET afterJoins == JoinLoop(q.joins, 1, StartOfPlan(self, h, sch, q))
        afterFilters == FilterLoop(h, sch, q.scalarFilters, 1, afterJoins)
    IN EndOfPlan(self, afterFilters.totalCost, q.joins \o q.scalarFilters,
                 afterFilters.sizes, afterFilters.steps)

\* FiltersFirstPlan::generatePlan
FiltersFirstPlan(self, h, sch, q) ==
    LET afterFilters == FilterLoop(h, sch, q.scalarFilters, 1,
                                   StartOfPlan(self, h, sch, q))
        afterJoins == JoinLoop(q.joins, 1, afterFilters)
    IN EndOfPlan(self, afterJoins.totalCost, q.scalarFilters \o q.joins,
                 afterJoins.sizes, afterJoins.steps)

Swap(arr, i, j) == [arr EXCEPT ![i] = arr[j], ![j] = arr[i]]

\* a generateJoinPermutations that pushes the joins in their input order
\* and no other permutation
permuteNone(arr, start, i) == <<arr>>

\* generateJoinPermutations: permute(arr, start) with the loop at index i,
\* as the sequence of the permutations in the order they are pushed
RECURSIVE permute(_, _, _)
permute(arr, start, i) ==
    IF start > Len(arr) THEN <<arr>>
    ELSE IF i > Len(arr) THEN <<>>
    ELSE permute(Swap(arr, start, i), start + 1, start + 1)
         \o permute(arr, start, i + 1)

\* The loop of TryAllJoinOrderPlan over the permutations from number p on:
\* a permutation replaces the best one when its cost is strictly smaller.
\* best.found is FALSE while bestJoinCost is numeric_limits<double>::max().
RECURSIVE TryPermutations(_, _, _, _)
TryPermutations(joinPermutations, p, tableSizes, best) ==
    IF p > Len(joinPermutations) THEN best
    ELSE LET joinOrder == joinPermutations[p]
             current == JoinLoop(joinOrder, 1,
                                 [totalCost |-> Cost(0, 1), sizes |-> tableSizes,
                                  steps |-> <<>>])
         IN TryPermutations(joinPermutations, p + 1, tableSizes,
                IF ~best.found \/ CostLess(current.totalCost, best.cost)
                THEN [found |-> TRUE, cost |-> current.totalCost,
                      order |-> joinOrder, steps |-> current.steps,
                      sizes |-> current.sizes]
                ELSE best)

\* TryAllJoinOrderPlan::generatePlan
TryAllJoinOrderPlan(self, h, sch, q) ==
    LET afterFilters == FilterLoop(h, sch, q.scalarFilters, 1,
                                   StartOfPlan(self, h, sch, q))
        best == TryPermutations(permute(q.joins, 1, 1), 1, afterFilters.sizes,
                                [found |-> FALSE, cost |-> Cost(0, 1),
                                 order |-> <<>>, steps |-> <<>>, sizes |-> <<>>])
    IN EndOfPlan(self, CostAdd(afterFilters.totalCost, best.cost),
                 q.scalarFilters \o best.order, best.sizes,
                 afterFilters.steps \o best.steps)

\* GreedyJoinPlan::findBestNextJoin from index i on: the first of the joins
\* with exactly one table joined whose cost is strictly the smallest; index
\* 0 (here 1) when no join qualifies
RECURSIVE findBestNextJoin(_, _, _, _, _)
findBestNextJoin(remainingJoins, joinedTables, tableSizes, i, best) ==
    IF i > Len(remainingJoins) THEN best.idx
    ELSE LET join == remainingJoins[i]
             canJoinLeft == join.lhsTable \in joinedTables
             canJoinRight == join.rhsTable \in joinedTables
             cost == estimateJoinCostAndSelectivity(
                         SizeOf(tableSizes, join.lhsTable),
                         SizeOf(tableSizes, join.rhsTable)).cost
         IN findBestNextJoin(remainingJoins, joinedTables, tableSizes, i + 1,
                IF (canJoinLeft /\ ~canJoinRight) \/ (~canJoinLeft /\ canJoinRight)
                THEN IF ~best.found \/ CostLess(cost, best.cost)
                     THEN [found |-> TRUE, cost |-> cost, idx |-> i]
                     ELSE best
                ELSE best)

RemoveAt(s, i) == SubSeq(s, 1, i - 1) \o SubSeq(s, i + 1, Len(s))

\* The while loop of GreedyJoinPlan::generatePlan.  The step of a join keeps
\* remainingJoins, joinedTables and tableSizes as they were when
\* findBestNextJoin was called for it.
RECURSIVE GreedyLoop(_, _, _, _)
GreedyLoop(remainingJoins, joinedTables, acc, pushed) ==
    IF remainingJoins = <<>>
    THEN [totalCost |-> acc.totalCost, order |-> pushed, sizes |-> acc.sizes,
          steps |-> acc.steps]
    ELSE LET bestJoinIdx == findBestNextJoin(
                                remainingJoins, joinedTables, acc.sizes, 1,
                                [found |-> FALSE, cost |-> Cost(0, 1), idx |-> 1])
             bestJoin == remainingJoins[bestJoinIdx]
             after == JoinLoop(<<bestJoin>>, 1, acc)
             step == after.steps[Len(after.steps)]
             chosen == [kind |-> "Join", join |-> bestJoin,
                        leftSize |-> step.leftSize, rightSize |-> step.rightSize,
                        cost |-> step.cost, outputSize |-> step.outputSize,
                        remainingJoins |-> remainingJoins,
                        joinedTables |-> joinedTables,
                        tableSizes |-> acc.sizes]
         IN GreedyLoop(RemoveAt(remainingJoins, bestJoinIdx),
                       joinedTables \cup {bestJoin.lhsTable, bestJoin.rhsTable},
                       [after EXCEPT !.steps = Append(acc.steps, chosen)],
                       Append(pushed, bestJoin))

\* what smallestTable->first can read when tableSizes is empty and
\* min_element returns end(): the dereference is undefined, the name is one
\* of a table or one no table has
EndNames == {"", "A"}

\* whether GreedyJoinPlan::generatePlan dereferences tableSizes.end(): the
\* map of the object holds no name, the query names no table and has no
\* scalar filter
GreedyDereferencesEnd(self, q) ==
    DOMAIN self.tableSizes = {} /\ q.tables = <<>> /\ q.scalarFilters = <<>>

\* GreedyJoinPlan::generatePlan: the set of plans it can produce when it
\* returns.  The first joined table is min_element over the unordered_map
\* tableSizes: one of the smallest tables, which one depends on the
\* iteration order of the map.  min_element of an empty map is end().
GreedyJoinPlan(self, h, sch, q) ==
    LET afterFilters == FilterLoop(h, sch, q.scalarFilters, 1,
                                   StartOfPlan(self, h, sch, q))
        tableSizes == afterFilters.sizes
        smallest == IF DOMAIN tableSizes = {} THEN EndNames
                    ELSE {t \in DOMAIN tableSizes :
                            \A u \in DOMAIN tableSizes :
                                tableSizes[t] <= tableSizes[u]}
    IN {LET r == GreedyLoop(q.joins, {smallestTable}, afterFilters, <<>>)
        IN EndOfPlan(self, r.totalCost, q.scalarFilters \o r.order, r.sizes,
                     r.steps) : smallestTable \in smallest}

\* a SubPlan: the bag of its table names (createPlanKey sorts the names, so
\* two SubPlans share a key when they have the same bag) and its cost
NameBag(names) == [n \in {names[i] : i \in DOMAIN names} |->
                     Cardinality({i \in DOMAIN names : names[i] = n})]

\* DPJoinPlan::canJoinPlans
canJoinPlans(plan1, plan2, join) ==
    \/ BagIn(join.lhsTable, plan1.tables) /\ BagIn(join.rhsTable, plan2.tables)
    \/ BagIn(join.rhsTable, plan1.tables) /\ BagIn(join.lhsTable, plan2.tables)

\* The body of the loop over size: the plans newPlans ends with.  Every
\* pair of entries of dpTable with size tables together and every join that
\* connects them gives a candidate, priced at the sizes after the filters;
\* newPlans keeps the cheapest candidate of each key.
NewPlans(dpTable, joins, tableSizes, size) ==
    LET candidates ==
            {[tables |-> plan1.tables (+) plan2.tables,
              cost |-> CostAdd(CostAdd(plan1.cost, plan2.cost),
                           estimateJoinCostAndSelectivity(
                               SizeOf(tableSizes, joins[j].lhsTable),
                               SizeOf(tableSizes, joins[j].rhsTable)).cost)] :
               <<plan1, plan2, j>> \in
                   {x \in dpTable \X dpTable \X DOMAIN joins :
                       /\ BagCardinality(x[1].tables) + BagCardinality(x[2].tables)
                            = size
                       /\ canJoinPlans(x[1], x[2], joins[x[3]])}}
    IN {c \in candidates :
          \A e \in candidates : e.tables = c.tables => CostLeq(c.cost, e.cost)}

\* for (size = 2; size <= components.tables.size(); ++size): insert does not
\* replace an entry of dpTable that has the same key
RECURSIVE DPLoop(_, _, _, _, _)
DPLoop(dpTable, joins, tableSizes, size, n) ==
    IF size > n THEN dpTable
    ELSE LET newPlans == NewPlans(dpTable, joins, tableSizes, size)
         IN DPLoop(dpTable \cup {p \in newPlans :
                                   \A e \in dpTable : e.tables # p.tables},
                   joins, tableSizes, size + 1, n)

\* the entries of dpTable with the key of all the tables of the query (one
\* or none)
CompletePlans(q, tableSizes) ==
    LET single == {[tables |-> NameBag(<<q.tables[i]>>), cost |-> Cost(0, 1)] :
                     i \in DOMAIN q.tables}
        dpTable == DPLoop(single, q.joins, tableSizes, 2, Len(q.tables))
    IN {p \in dpTable : p.tables = NameBag(q.tables)}

\* DPJoinPlan::generatePlan: when dpTable has the key of all the tables,
\* totalCost is assigned that entry's cost (the filter costs added before are
\* dropped); no join is pushed to componentExecutionOrder and tableSizes is
\* not written after the filters.  The lines of the joinSequence are not
\* kept in the steps.
DPJoinPlan(self, h, sch, q) ==
    LET afterFilters == FilterLoop(h, sch, q.scalarFilters, 1,
                                   StartOfPlan(self, h, sch, q))
        complete == CompletePlans(q, afterFilters.sizes)
    IN EndOfPlan(self,
                 IF complete = {} THEN afterFilters.totalCost
                 ELSE (CHOOSE p \in complete : TRUE).cost,
                 q.scalarFilters, afterFilters.sizes, afterFilters.steps)

\* Planner::generatePlans: the sequences of five plans it can leave in
\* Planner::plans
PlannerPlans(h, sch, q) ==
    {<<JoinsFirstPlan(PlanObject("JoinsFirst"), h, sch, q),
       FiltersFirstPlan(PlanObject("FiltersFirst"), h, sch, q),
       TryAllJoinOrderPlan(PlanObject("TryAllJoinOrderPlan"), h, sch, q),
       greedy,
       DPJoinPlan(PlanObject("DPJoinPlan"), h, sch, q)>> :
       greedy \in GreedyJoinPlan(PlanObject("GreedyJoinPlan"), h, sch, q)}

\* Planner::getBestPlan: std::min_element returns the first plan no later
\* plan is strictly cheaper than; 0 stands for nullptr
getBestPlan(ps) ==
    IF ps = <<>> THEN 0
    ELSE CHOOSE b \in DOMAIN ps :
           /\ \A j \in DOMAIN ps : ~CostLess(ps[j].totalCost, ps[b].totalCost)
           /\ \A j \in 1..(b - 1) : CostLess(ps[b].totalCost, ps[j].totalCost)

\* componentExecutionOrder of each plan class for a query with at most one
\* join.  JoinsFirstPlan pushes the joins, then the filters; the others push
\* the filters first.  TryAllJoinOrderPlan appends the cheapest permutation
\* of the joins and GreedyJoinPlan the join findBestNextJoin picks from
\* those left: with one join that is the join.  DPJoinPlan pushes the filters
\* and never a join.
JoinsFirstOrder(q) == q.joins \o q.scalarFilters
FiltersFirstOrder(q) == q.scalarFilters \o q.joins
TryAllJoinOrder(q) == q.scalarFilters \o q.joins
GreedyJoinOrder(q) == q.scalarFilters \o q.joins
DPJoinOrder(q) == q.scalarFilters

\* Planner::generatePlans: the five plans in the order they are made
GeneratedPlans(q) ==
    <<JoinsFirstOrder(q), FiltersFirstOrder(q), TryAllJoinOrder(q),
      GreedyJoinOrder(q), DPJoinOrder(q)>>

\* the filters and joins of the queries processed; each passes validateQuery
\* on the catalog (tables and columns exist, tags agree)
QueryFilters ==
    {<<>>,
     <<ScalarFilterComponent("A", "k", "EQUALS", I(1))>>,
     <<ScalarFilterComponent("A", "k", "GREATER_THAN", I(1))>>,
     <<ScalarFilterComponent("B", "k", "LESS_THAN", I(2))>>,
     <<ScalarFilterComponent("A", "s", "EQUALS", S(<<98>>))>>,
     <<ScalarFilterComponent("A", "k", "GREATER_THAN_OR_EQ", I(1))>>,
     <<ScalarFilterComponent("A", "k", "EQUALS", I(1)),
       ScalarFilterComponent("B", "k", "GREATER_THAN", I(1))>>}
QueryJoins ==
    {<<>>, <<JoinComponent("A", "k", "B", "k")>>, <<JoinComponent("B", "k", "A", "k")>>}
Queries ==
    [tables : {<<"A", "B">>}, scalarFilters : QueryFilters, joins : QueryJoins]

QueryInit ==
    /\ TableIdle
    /\ OthersIdle
    /\ CatalogInit
    /\ query \in Queries
    /\ plans = <<>>
    /\ planIdx = 0
    /\ results = <<>>
    /\ bestPlan = 0

\* Planner::generatePlans; a throw ends processQuery
GeneratePlans ==
    /\ xstate = "idle"
    /\ planIdx = 0
    /\ IF PlanningThrows(heap, schema, query)
       THEN /\ xstate' = "aborted"
            /\ UNCHANGED <<plans, planIdx>>
       ELSE /\ plans' = GeneratedPlans(query)
            /\ planIdx' = 1
            /\ xstate' = "idle"
    /\ UNCHANGED <<heap, schema, schema0, tableMap, order, ip, final, lastStep>>
    /\ UNCHANGED <<query, results, bestPlan>>
    /\ UNCHANGED <<tableVars, parseVars, ikkbzVars, indexVars>>

\* executor.executeQuery(plan->getExecutionOrder()) on a new Executor
RunPlan ==
    /\ xstate = "idle"
    /\ planIdx \in 1..Len(plans)
    /\ BeginQuery(plans[planIdx])
    /\ UNCHANGED <<tableVars, queryVars, parseVars, ikkbzVars, indexVars>>

\* what writeResultToFile is given
Written(h, f) ==
    IF f = 0 THEN [written |-> FALSE, columns |-> <<>>, data |-> <<>>]
    ELSE [written |-> TRUE, columns |-> h[f].columns, data |-> h[f].data]

\* The end of one iteration of the loop over the plans: the Executor and the
\* tables only its map held are destroyed.
NextPlan ==
    /\ xstate = "done"
    /\ planIdx \in 1..Len(plans)
    /\ results' = Append(results, Written(heap, final))
    /\ planIdx' = planIdx + 1
    /\ heap' = SubSeq(heap, 1, Cardinality(DOMAIN schema))
    /\ tableMap' = <<>>
    /\ xstate' = "idle"
    /\ final' = 0
    /\ ip' = 0
    /\ order' = <<>>
    /\ lastStep' = NoStep
    /\ UNCHANGED <<schema, schema0, query, plans, bestPlan>>
    /\ UNCHANGED <<tableVars, parseVars, ikkbzVars, indexVars>>

QueryNext ==
    \/ GeneratePlans
    \/ RunPlan
    \/ ExecStep
    \/ ExecFinish
    \/ NextPlan

SpecQuery == QueryInit /\ [][QueryNext]_vars

(***************************************************************************)
(* SimpleParser (test_bench/parser.cpp).  A string is the sequence of its  *)
(* character codes.  A scalar filter of the query text is taken here as    *)
(* split at its operator: table, column, operator text, value text.        *)
(***************************************************************************)
\* std::isspace and the decimal digits
IsSpace(ch) == ch \in {9, 10, 11, 12, 13, 32}
IsDigit(ch) == ch \in 48..57

\* the position of the first character of str at or after k that is no space
RECURSIVE SkipSpace(_, _)
SkipSpace(str, k) ==
    IF k <= Len(str) /\ IsSpace(str[k]) THEN SkipSpace(str, k + 1) ELSE k

\* The digits of str from k on, read onto acc with the sign given: whether
\* there was a digit, whether the number left the range of int (strtol reads
\* a long, stoi then throws), and the number.
RECURSIVE ReadDigits(_, _, _, _, _)
ReadDigits(str, k, sign, acc, any) ==
    IF k > Len(str) \/ ~IsDigit(str[k])
    THEN [any |-> any, over |-> FALSE, value |-> acc]
    ELSE LET d == str[k] - 48
             over == IF sign = 1 THEN acc > (INT_MAX - d) \div 10
                     ELSE acc < (INT_MIN + d + 9) \div 10
         IN IF over THEN [any |-> TRUE, over |-> TRUE, value |-> 0]
            ELSE ReadDigits(str, k + 1, sign, acc * 10 + sign * d, TRUE)

\* std::stoi(str): spaces, an optional sign, then digits up to the first
\* character that is none; what follows the digits is ignored.  It throws
\* invalid_argument without a digit and out_of_range outside int.
stoi(str) ==
    LET start == SkipSpace(str, 1)
        signed == start <= Len(str) /\ str[start] \in {43, 45}
        sign == IF start <= Len(str) /\ str[start] = 45 THEN -1 ELSE 1
        digits == ReadDigits(str, IF signed THEN start + 1 ELSE start, sign, 0, FALSE)
    IN IF ~digits.any THEN [ok |-> FALSE, error |-> "invalid_argument", value |-> 0]
       ELSE IF digits.over THEN [ok |-> FALSE, error |-> "out_of_range", value |-> 0]
       ELSE [ok |-> TRUE, error |-> "", value |-> digits.value]

\* FilterComponent::stringToPredicate
stringToPredicate(pred) ==
    CASE pred = "=" -> "EQUALS"
      [] pred = ">" -> "GREATER_THAN"
      [] pred = "<" -> "LESS_THAN"
      [] pred = ">=" -> "GREATER_THAN_OR_EQ"
      [] pred = "<=" -> "LESS_THAN_OR_EQ"
      [] pred = "!=" -> "NOT_EQUALS"

\* Table::getColumnType(columnName): the type of the column of that name,
\* INVALID when the table has none
getColumnType(t, columnName) ==
    LET hits == {k \in 1..Len(t.columns) : t.columns[k].name = columnName}
    IN IF hits = {} THEN "INVALID"
       ELSE t.columns[CHOOSE k \in hits : \A j \in hits : k <= j].type

\* The scalar_filters section of parse from filter i on: the literal becomes
\* a Field of the tag of the column it is compared with.
RECURSIVE ParseScalarFilters(_, _, _, _, _)
ParseScalarFilters(h, sch, filters, i, acc) ==
    IF i > Len(filters) THEN [ok |-> TRUE, error |-> "", scalarFilters |-> acc]
    ELSE LET f == filters[i]
         IN IF f.tableName \notin DOMAIN sch
            THEN [ok |-> FALSE, error |-> "TableNotFound", scalarFilters |-> acc]
            ELSE LET columnType == getColumnType(h[sch[f.tableName]], f.columnName)
                     n == stoi(f.value)
                 IN IF columnType = "INTEGER" /\ ~n.ok
                    THEN [ok |-> FALSE, error |-> n.error, scalarFilters |-> acc]
                    ELSE ParseScalarFilters(h, sch, filters, i + 1,
                           Append(acc,
                             ScalarFilterComponent(f.tableName, f.columnName,
                               stringToPredicate(f.opStr),
                               IF columnType = "INTEGER" THEN IntField(n.value)
                               ELSE StrField(f.value))))

\* validateQuery: "ok" or the exception it throws
ValidateFilters(h, sch, filters) ==
    IF \E i \in 1..Len(filters) : filters[i].lhsTable \notin DOMAIN sch
    THEN "TableNotFound"
    ELSE LET bad == {i \in 1..Len(filters) :
                       LET columnType == getColumnType(h[sch[filters[i].lhsTable]],
                                                       filters[i].lhsColumn)
                       IN columnType = "INVALID" \/ columnType # filters[i].rhsValue.type}
         IN IF bad = {} THEN "ok"
            ELSE LET i == CHOOSE k \in bad : \A j \in bad : k <= j
                 IN IF getColumnType(h[sch[filters[i].lhsTable]],
                                     filters[i].lhsColumn) = "INVALID"
                    THEN "ColumnNotFound" ELSE "TypeMismatch"

ValidateJoins(h, sch, joins) ==
    LET leftType(c) == getColumnType(h[sch[c.lhsTable]], c.lhsColumn)
        rightType(c) == getColumnType(h[sch[c.rhsTable]], c.rhsColumn)
    IN IF \E i \in 1..Len(joins) :
             joins[i].lhsTable \notin DOMAIN sch \/ joins[i].rhsTable \notin DOMAIN sch
       THEN "TableNotFound"
       ELSE LET bad == {i \in 1..Len(joins) :
                          \/ leftType(joins[i]) = "INVALID"
                          \/ rightType(joins[i]) = "INVALID"
                          \/ leftType(joins[i]) # rightType(joins[i])}
            IN IF bad = {} THEN "ok"
               ELSE LET c == joins[CHOOSE k \in bad : \A j \in bad : k <= j]
                    IN IF leftType(c) = "INVALID" \/ rightType(c) = "INVALID"
                       THEN "ColumnNotFound" ELSE "TypeMismatch"

validateQuery(h, sch, components) ==
    IF \E i \in 1..Len(components.tables) : components.tables[i] \notin DOMAIN sch
    THEN "TableNotFound"
    ELSE LET filters == ValidateFilters(h, sch, components.scalarFilters)
         IN IF filters # "ok" THEN filters
            ELSE ValidateJoins(h, sch, components.joins)

\* SimpleParser::parse: the components it returns, or the exception
SimpleParserParse(h, sch, lines) ==
    LET filters == ParseScalarFilters(h, sch, lines.scalarFilters, 1, <<>>)
    IN IF ~filters.ok THEN [status |-> filters.error, components |-> NoQuery]
       ELSE LET components == [tables |-> lines.tables,
                               scalarFilters |-> filters.scalarFilters,
                               joins |-> lines.joins]
                status == validateQuery(h, sch, components)
            IN [status |-> status,
                components |-> IF status = "ok" THEN components ELSE NoQuery]

(***************************************************************************)
(* The planner on its own: generatePlans, then getBestPlan.                *)
(***************************************************************************)
MaxQueryJoins == 2

\* Catalogs whose tables all have rows: a selectivity asked of a table with
\* no rows is 0 / 0 and the size computed from it is the conversion of a NaN
\* to size_t.
RowsA1 == << <<I(2), S(<<98>>)>> >>
PlanFiles == {<<RowsA3, RowsB3, RowsC2>>, <<RowsA1, RowsB3, RowsC2>>}

PlanTables == {<<"A", "B", "C">>, <<"A", "B">>, <<"C">>, <<>>}
PlanFilters ==
    {<<>>,
     <<ScalarFilterComponent("A", "k", "EQUALS", I(2))>>,
     <<ScalarFilterComponent("A", "k", "EQUALS", I(1))>>,
     <<ScalarFilterComponent("B", "k", "EQUALS", I(2))>>,
     <<ScalarFilterComponent("C", "k", "LESS_THAN", I(1))>>,
     <<ScalarFilterComponent("A", "s", "EQUALS", S(<<97>>))>>,
     <<ScalarFilterComponent("A", "k", "GREATER_THAN", I(1))>>,
     <<ScalarFilterComponent("A", "k", "NOT_EQUALS", I(1))>>,
     <<ScalarFilterComponent("A", "k", "EQUALS", I(2)),
       ScalarFilterComponent("B", "k", "EQUALS", I(2))>>,
     <<ScalarFilterComponent("B", "k", "GREATER_THAN", I(2)),
       ScalarFilterComponent("A", "s", "EQUALS", S(<<97>>))>>}
PlanJoinSet ==
    {JoinComponent("A", "k", "B", "k"), JoinComponent("B", "k", "C", "k"),
     JoinComponent("C", "k", "A", "k")}
PlanJoins == UNION {[1..n -> PlanJoinSet] : n \in 0..MaxQueryJoins}
PlanQueries ==
    [tables : PlanTables, scalarFilters : PlanFilters, joins : PlanJoins]

PlanInit ==
    /\ TableIdle
    /\ OthersIdle
    /\ \E files \in PlanFiles : CatalogLoaded(files)
    /\ query \in PlanQueries
    /\ plans = <<>>
    /\ planIdx = 0
    /\ results = <<>>
    /\ bestPlan = 0

\* planner.generatePlans(); a throw of estimateSelectivity ends processQuery.
\* When the Greedy plan dereferences end() the call returns with some name
\* read or the process ends in a fault ("crashed").
PlannerGeneratePlans ==
    /\ xstate = "idle"
    /\ plans = <<>>
    /\ parsed \in {"none", "ok"}
    /\ IF PlanningThrows(heap, schema, query)
       THEN /\ xstate' = "aborted"
            /\ UNCHANGED plans
       ELSE \/ /\ plans' \in PlannerPlans(heap, schema, query)
               /\ UNCHANGED xstate
            \/ /\ GreedyDereferencesEnd(PlanObject("GreedyJoinPlan"), query)
               /\ xstate' = "crashed"
               /\ UNCHANGED plans
    /\ UNCHANGED <<heap, schema, schema0, tableMap, order, ip, final, lastStep>>
    /\ UNCHANGED <<query, planIdx, results, bestPlan>>
    /\ UNCHANGED <<tableVars, parseVars, ikkbzVars, indexVars>>

\* planner.getBestPlan()
GetBestPlan ==
    /\ xstate = "idle"
    /\ plans # <<>>
    /\ bestPlan = 0
    /\ bestPlan' = getBestPlan(plans)
    /\ UNCHANGED <<query, plans, planIdx, results>>
    /\ UNCHANGED <<tableVars, execVars, parseVars, ikkbzVars, indexVars>>

PlanNext ==
    \/ PlannerGeneratePlans
    \/ GetBestPlan

SpecPlan == PlanInit /\ [][PlanNext]_vars

(***************************************************************************)
(* generatePlan called on the plan objects of a planner, once and again.   *)
(***************************************************************************)
MaxCalls == 2

\* plan->generatePlan() through the virtual function of Plan: the objects
\* the call can leave
generatePlan(self, h, sch, q) ==
    CASE self.name = "JoinsFirst" -> {JoinsFirstPlan(self, h, sch, q)}
      [] self.name = "FiltersFirst" -> {FiltersFirstPlan(self, h, sch, q)}
      [] self.name = "TryAllJoinOrderPlan" -> {TryAllJoinOrderPlan(self, h, sch, q)}
      [] self.name = "GreedyJoinPlan" -> GreedyJoinPlan(self, h, sch, q)
      [] self.name = "DPJoinPlan" -> {DPJoinPlan(self, h, sch, q)}

\* the queries whose plans are generated: with and without tables, a
\* filter and joins; no filter makes the estimate throw
RegenQueries ==
    [tables : {<<"A", "B">>, <<>>},
     scalarFilters : {<<>>,
                      <<ScalarFilterComponent("A", "k", "EQUALS", I(2))>>,
                      <<ScalarFilterComponent("B", "k", "EQUALS", I(2))>>},
     joins : PlanJoins]

\* the five plan objects of Planner::generatePlans as their constructors
\* leave them, before a generatePlan
RegenInit ==
    /\ TableIdle
    /\ OthersIdle
    /\ \E files \in PlanFiles : CatalogLoaded(files)
    /\ query \in RegenQueries
    /\ plans = <<PlanObject("JoinsFirst"), PlanObject("FiltersFirst"),
                 PlanObject("TryAllJoinOrderPlan"), PlanObject("GreedyJoinPlan"),
                 PlanObject("DPJoinPlan")>>
    /\ planIdx = 0
    /\ results = <<>>
    /\ bestPlan = 0

\* generatePlan() on plan i: the first call or a call on an object that has
\* been generated before.  When the Greedy plan dereferences end() the call
\* returns with some name read or the process ends in a fault.
GeneratePlan(i) ==
    /\ xstate = "idle"
    /\ plans[i].calls < MaxCalls
    /\ \/ /\ \E p \in generatePlan(plans[i], heap, schema, query) :
               plans' = [plans EXCEPT ![i] = p]
          /\ UNCHANGED xstate
       \/ /\ plans[i].name = "GreedyJoinPlan"
          /\ GreedyDereferencesEnd(plans[i], query)
          /\ xstate' = "crashed"
          /\ UNCHANGED plans
    /\ UNCHANGED <<heap, schema, schema0, tableMap, order, ip, final, lastStep>>
    /\ UNCHANGED <<query, planIdx, results, bestPlan>>
    /\ UNCHANGED <<tableVars, parseVars, ikkbzVars, indexVars>>

RegenNext == \E i \in 1..5 : GeneratePlan(i)

SpecRegen == RegenInit /\ [][RegenNext]_vars

(***************************************************************************)
(* processQuery from the query text: parse, generatePlans, getBestPlan.    *)
(***************************************************************************)
\* the value texts of a scalar filter: 1, 2, b, 12, 1b, -1, 'b', the empty
\* text and a number above INT_MAX
Literals ==
    {<<49>>, <<50>>, <<98>>, <<49, 50>>, <<49, 98>>, <<45, 49>>, <<39, 98, 39>>, <<>>,
     <<57, 57, 57, 57, 57, 57, 57, 57, 57, 57>>}

RawFilter(tableName, columnName, opStr, value) ==
    [tableName |-> tableName, columnName |-> columnName, opStr |-> opStr,
     value |-> value]

RawFilters ==
    {<<>>}
    \cup {<<RawFilter("A", c, op, v)>> : c \in {"k", "s"}, op \in {"=", "<"}, v \in Literals}
    \cup {<<RawFilter("A", "zz", "=", <<49>>)>>}
    \cup {<<RawFilter("A", "k", "=", <<50>>), RawFilter("A", "s", "=", v)>> :
            v \in {<<98>>, <<49>>}}

RawJoins ==
    {<<>>, <<JoinComponent("A", "k", "B", "k")>>, <<JoinComponent("A", "s", "B", "k")>>}

QueryTexts == [tables : {<<"A", "B">>}, scalarFilters : RawFilters, joins : RawJoins]

ParseInit ==
    /\ TableIdle
    /\ IkkbzIdle
    /\ IndexIdle
    /\ \E files \in PlanFiles : CatalogLoaded(files)
    /\ QueryIdle
    /\ queryLines \in QueryTexts
    /\ parsed = "pending"

\* SimpleParser::parse(queryLines, schema) at the start of processQuery
Parse ==
    /\ parsed = "pending"
    /\ LET r == SimpleParserParse(heap, schema, queryLines)
       IN /\ parsed' = r.status
          /\ query' = r.components
    /\ UNCHANGED <<queryLines, plans, planIdx, results, bestPlan>>
    /\ UNCHANGED <<tableVars, execVars, ikkbzVars, indexVars>>

ParseNext ==
    \/ Parse
    \/ PlannerGeneratePlans
    \/ GetBestPlan

SpecParse == ParseInit /\ [][ParseNext]_vars

(***************************************************************************)
(* JoinGraph and IKKBZOptimizer (join_ordering/join_order.cpp).            *)
(* A relation is its name and size; every relation has records whose data  *)
(* is two characters long, as generateRandomRecords makes them for fewer   *)
(* than ten records, so the last factor of estimateCost is log(2) for all  *)
(* of them and a cost is kept here as the exact fraction cost / log(2).    *)
(***************************************************************************)
MaxRelations == 4
MaxConditions == 3

Relation(name, size) == [name |-> name, size |-> size]
JoinCondition(left, right, selectivity) ==
    [left |-> left, right |-> right, selectivity |-> selectivity]

\* JoinGraph::addRelation
addRelation(g, relation) ==
    [g EXCEPT !.relations = Append(@, relation),
              !.adjacencyList = MapPut(@, relation.name, <<>>)]

\* JoinGraph::addJoinCondition, for a condition between two relations of g
addJoinCondition(g, condition) ==
    LET withRight == [g.adjacencyList EXCEPT ![condition.left] =
                                               Append(@, condition.right)]
    IN [g EXCEPT !.conditions = Append(@, condition),
                 !.adjacencyList = [withRight EXCEPT ![condition.right] =
                                                       Append(@, condition.left)]]

\* hasCycle(current, parent, visited) from the k-th neighbour of current on,
\* current already in visited: whether it returns true, and visited after it
RECURSIVE hasCycle(_, _, _, _, _)
hasCycle(g, current, parent, visited, k) ==
    IF k > Len(g.adjacencyList[current]) THEN [cycle |-> FALSE, visited |-> visited]
    ELSE LET neighbor == g.adjacencyList[current][k]
         IN IF neighbor = parent THEN hasCycle(g, current, parent, visited, k + 1)
            ELSE IF neighbor \in visited THEN [cycle |-> TRUE, visited |-> visited]
            ELSE LET below == hasCycle(g, neighbor, current, visited \cup {neighbor}, 1)
                 IN IF below.cycle THEN below
                    ELSE hasCycle(g, current, parent, below.visited, k + 1)

\* JoinGraph::isAcyclic: the search starts at relations[0] and nowhere else
isAcyclic(g) ==
    LET start == g.relations[1].name
    IN ~hasCycle(g, start, "", {start}, 1).cycle

\* the size of the relation of that name
RelationSize(g, name) ==
    LET hits == {k \in 1..Len(g.relations) : g.relations[k].name = name}
    IN g.relations[CHOOSE k \in hits : \A j \in hits : k <= j].size

\* the loop of estimateCost over the conditions from c on
RECURSIVE CostLoop(_, _, _, _)
CostLoop(g, relation, c, cost) ==
    IF c > Len(g.conditions) THEN cost
    ELSE LET condition == g.conditions[c]
         IN IF condition.left = relation \/ condition.right = relation
            THEN LET other == IF condition.left = relation THEN condition.right
                              ELSE condition.left
                 IN CostLoop(g, relation, c + 1,
                             Cost(cost.n * condition.selectivity.n * RelationSize(g, other),
                                  cost.d * condition.selectivity.d))
            ELSE CostLoop(g, relation, c + 1, cost)

\* IKKBZOptimizer::estimateCost
estimateCost(g, relation) == CostLoop(g, relation, 1, Cost(RelationSize(g, relation), 1))

\* The loop of findBestStartingRelation and of findNextBestRelation over the
\* candidates from k on: the first of strictly least cost, "" without one.
\* minCost is NoCost while it still is the largest double.
NoCost == [n |-> 1, d |-> 0]
RECURSIVE FindBest(_, _, _, _, _, _)
FindBest(g, candidates, skip, k, minCost, best) ==
    IF k > Len(candidates) THEN best
    ELSE IF candidates[k] \in skip THEN FindBest(g, candidates, skip, k + 1, minCost, best)
    ELSE LET cost == estimateCost(g, candidates[k])
         IN IF minCost = NoCost \/ CostLess(cost, minCost)
            THEN FindBest(g, candidates, skip, k + 1, cost, candidates[k])
            ELSE FindBest(g, candidates, skip, k + 1, minCost, best)

findBestStartingRelation(g) ==
    FindBest(g, [k \in 1..Len(g.relations) |-> g.relations[k].name], {}, 1, NoCost, "")

findNextBestRelation(g, current, processed) ==
    FindBest(g, g.adjacencyList[current], processed, 1, NoCost, "")

\* The while loop of optimizeJoinOrder.  adjacencyList.at throws
\* std::out_of_range for a name that is no key, which "" is.
RECURSIVE OrderLoop(_, _, _)
OrderLoop(g, joinOrder, processed) ==
    IF Len(joinOrder) >= Len(g.relations) THEN [status |-> "ok", joinOrder |-> joinOrder]
    ELSE LET current == joinOrder[Len(joinOrder)]
         IN IF current \notin DOMAIN g.adjacencyList
            THEN [status |-> "out_of_range", joinOrder |-> <<>>]
            ELSE LET next == findNextBestRelation(g, current, processed)
                 IN OrderLoop(g, Append(joinOrder, next), processed \cup {next})

\* IKKBZOptimizer::optimizeJoinOrder: the order it returns or what it throws
optimizeJoinOrder(g) ==
    IF ~isAcyclic(g) THEN [status |-> "AcyclicRequired", joinOrder |-> <<>>]
    ELSE LET start == findBestStartingRelation(g)
         IN OrderLoop(g, <<start>>, {start})

RelationNames == {"A", "B", "C", "D"}
RelationSizes == {1, 2}
Half == Cost(1, 2)

IkkbzInit ==
    /\ TableIdle
    /\ ExecIdle
    /\ QueryIdle
    /\ ParseIdle
    /\ IndexIdle
    /\ IkkbzIdle

AddRelation(name, size) ==
    /\ optimized = NoOrder
    /\ Len(graph.relations) < MaxRelations
    /\ name \notin DOMAIN graph.adjacencyList
    /\ graph' = addRelation(graph, Relation(name, size))
    /\ UNCHANGED optimized
    /\ UNCHANGED <<tableVars, execVars, queryVars, parseVars, indexVars>>

\* a condition between two different relations of the graph that no
\* condition joins yet
AddJoinCondition(left, right) ==
    /\ optimized = NoOrder
    /\ Len(graph.conditions) < MaxConditions
    /\ left \in DOMAIN graph.adjacencyList
    /\ right \in DOMAIN graph.adjacencyList
    /\ left # right
    /\ \A c \in 1..Len(graph.conditions) :
         {graph.conditions[c].left, graph.conditions[c].right} # {left, right}
    /\ graph' = addJoinCondition(graph, JoinCondition(left, right, Half))
    /\ UNCHANGED optimized
    /\ UNCHANGED <<tableVars, execVars, queryVars, parseVars, indexVars>>

OptimizeJoinOrder ==
    /\ optimized = NoOrder
    /\ graph.relations # <<>>
    /\ optimized' = optimizeJoinOrder(graph)
    /\ UNCHANGED graph
    /\ UNCHANGED <<tableVars, execVars, queryVars, parseVars, indexVars>>

IkkbzNext ==
    \/ \E name \in RelationNames, size \in RelationSizes : AddRelation(name, size)
    \/ \E left \in RelationNames, right \in RelationNames : AddJoinCondition(left, right)
    \/ OptimizeJoinOrder

SpecIkkbz == IkkbzInit /\ [][IkkbzNext]_vars

(***************************************************************************)
(* LearnedIndex (poc/learned_index.cpp).  Positions are counted from 0 as  *)
(* in the code.  slope and intercept are doubles; here they are the exact  *)
(* fractions n / d, with d = 0 for the NaN that 0.0 / 0.0 gives.           *)
(***************************************************************************)
MaxLen == 3
MaxData == 3
LongLen == 12

\* data[pos] for a position inside the vector
DataAt(data, pos) == data[pos + 1]

\* std::accumulate of f over the positions 0 .. n - 1
RECURSIVE Accumulate(_, _)
Accumulate(f, n) == IF n = 0 THEN 0 ELSE f[n - 1] + Accumulate(f, n - 1)

\* LinearRegression::fit on X[i] = i, y[i] = data[i]: the intercept is kept
\* over the denominator n times that of the slope
fit(data) ==
    LET n == Len(data)
        X == [i \in 0..(n - 1) |-> i]
        y == [i \in 0..(n - 1) |-> DataAt(data, i)]
        sum_X == Accumulate(X, n)
        sum_y == Accumulate(y, n)
        sum_XY == Accumulate([i \in 0..(n - 1) |-> X[i] * y[i]], n)
        sum_X2 == Accumulate([i \in 0..(n - 1) |-> X[i] * X[i]], n)
        num == n * sum_XY - sum_X * sum_y
        den == n * sum_X2 - sum_X * sum_X
    IN [slope |-> [n |-> num, d |-> den],
        intercept |-> [n |-> den * sum_y - num * sum_X, d |-> den * n]]

\* LinearRegression::predict: slope * x + intercept, NaN when they are
predict(model, x) ==
    IF model.slope.d = 0 THEN [n |-> 0, d |-> 0]
    ELSE [n |-> model.slope.n * x * (model.intercept.d \div model.slope.d)
                 + model.intercept.n,
          d |-> model.intercept.d]

\* int pos = std::round(predicted_pos): halves go away from zero; the
\* conversion of a NaN to int is undefined and may give any int
RoundToInt(predicted_pos) ==
    IF predicted_pos.d = 0 THEN {INT_MIN, -1, 0, 1, INT_MAX}
    ELSE IF predicted_pos.n >= 0
    THEN {(2 * predicted_pos.n + predicted_pos.d) \div (2 * predicted_pos.d)}
    ELSE {0 - ((predicted_pos.d - 2 * predicted_pos.n) \div (2 * predicted_pos.d))}

\* static_cast<int>(std::sqrt(n))
IntSqrt(n) == CHOOSE r \in 0..n : r * r <= n /\ (r + 1) * (r + 1) > n

\* LearnedIndex::LearnedIndex
LearnedIndexNew(input_data) ==
    [data |-> input_data, model |-> fit(input_data), operations |-> 0]

\* The first loop of linear_search.  Its condition reads data[pos] before
\* it tests pos >= 0: at pos = -1 it reads data[-1], outside the vector, and
\* then finds pos >= 0 false, so the loop ends whatever was read.  reads is
\* the set of positions of data that have been read.
RECURSIVE LeftLoop(_, _, _, _, _, _, _)
LeftLoop(data, key, pos, left_limit, operations, steps, reads) ==
    IF pos >= 0 /\ DataAt(data, pos) > key /\ left_limit < 10
    THEN LeftLoop(data, key, pos - 1, left_limit + 1, operations + 1, steps + 1,
                  reads \cup {pos})
    ELSE [pos |-> pos, operations |-> operations, steps |-> steps,
          reads |-> reads \cup {pos}]

\* The second loop of linear_search.  pos < data.size() compares as size_t,
\* so it is false for pos = -1 as for pos = data.size(); in both cases
\* data[pos] has been read outside the vector and the loop ends whatever
\* was read.
RECURSIVE RightLoop(_, _, _, _, _, _, _)
RightLoop(data, key, pos, right_limit, operations, steps, reads) ==
    IF pos >= 0 /\ pos < Len(data) /\ DataAt(data, pos) < key /\ right_limit < 10
    THEN RightLoop(data, key, pos + 1, right_limit + 1, operations + 1, steps + 1,
                   reads \cup {pos})
    ELSE [pos |-> pos, operations |-> operations, steps |-> steps,
          reads |-> reads \cup {pos}]

\* LearnedIndex::linear_search: the result, the counter, the number of loop
\* iterations made and the positions of data read.  The last test reads
\* data[pos] only when pos is inside the vector.
linear_search(data, key, pos, operations) ==
    IF DataAt(data, pos) = key
    THEN [result |-> pos, operations |-> operations, steps |-> 0, reads |-> {pos}]
    ELSE LET l == LeftLoop(data, key, pos, 0, operations, 0, {pos})
             r == RightLoop(data, key, l.pos, 0, l.operations, l.steps, l.reads)
         IN [result |-> IF r.pos < Len(data) /\ r.pos >= 0 /\ DataAt(data, r.pos) = key
                        THEN r.pos ELSE -1,
             operations |-> r.operations, steps |-> r.steps, reads |-> r.reads]

\* LearnedIndex::binary_search
RECURSIVE binary_search(_, _, _, _, _, _, _)
binary_search(data, key, left, right, operations, steps, reads) ==
    IF left > right
    THEN [result |-> -1, operations |-> operations, steps |-> steps, reads |-> reads]
    ELSE LET mid == left + (right - left) \div 2
         IN IF DataAt(data, mid) = key
            THEN [result |-> mid, operations |-> operations + 1, steps |-> steps + 1,
                  reads |-> reads \cup {mid}]
            ELSE IF DataAt(data, mid) < key
            THEN binary_search(data, key, mid + 1, right, operations + 1, steps + 1,
                               reads \cup {mid})
            ELSE binary_search(data, key, left, mid - 1, operations + 1, steps + 1,
                               reads \cup {mid})

\* a search that leaves the counter as the searches before left it
KeepOperations(operations) == operations

\* operations = 0 at the start of search
ResetOperations(operations) == 0

\* LearnedIndex::search with the int the conversion of the prediction gave
search(idx, key, type, rounded) ==
    LET operations == ResetOperations(idx.operations)
        size == Len(idx.data)
        pos == Max2(0, Min2(rounded, size - 1))
    IN IF type = "linear" THEN linear_search(idx.data, key, pos, operations)
       ELSE LET search_range == Max2(1, IntSqrt(size))
                left == Max2(0, pos - search_range)
                right == Min2(size - 1, pos + search_range)
            IN binary_search(idx.data, key, left, right, operations, 0, {})

\* The arrays an index is built on: every ascending array of up to MaxLen
\* values in 0 .. MaxData, and arrays of LongLen values in steps of 1 and 10.
Ascending(a) == \A i \in 1..(Len(a) - 1) : a[i] <= a[i + 1]
IndexArrays ==
    {a \in UNION {[1..n -> 0..MaxData] : n \in 1..MaxLen} : Ascending(a)}
    \cup {[i \in 1..LongLen |-> step * (i - 1)] : step \in {1, 10}}

\* the keys asked of an index: its values, their successors, and a key
\* below the least
SearchKeys(data) ==
    {data[i] : i \in 1..Len(data)} \cup {data[i] + 1 : i \in 1..Len(data)}
    \cup {data[1] - 1}

IndexInit ==
    /\ TableIdle
    /\ ExecIdle
    /\ QueryIdle
    /\ ParseIdle
    /\ IkkbzIdle
    /\ \E input_data \in IndexArrays : learnedIndex = LearnedIndexNew(input_data)
    /\ lastSearch = NoSearch

Search(key, type) ==
    /\ \E rounded \in RoundToInt(predict(learnedIndex.model, key)) :
         LET r == search(learnedIndex, key, type, rounded)
         IN /\ learnedIndex' = [learnedIndex EXCEPT !.operations = r.operations]
            /\ lastSearch' = [key |-> key, type |-> type, result |-> r.result,
                              steps |-> r.steps, reads |-> r.reads]
    /\ UNCHANGED <<tableVars, execVars, queryVars, parseVars, ikkbzVars>>

IndexNext ==
    \E key \in SearchKeys(learnedIndex.data), type \in {"binary", "linear"} :
        Search(key, type)

SpecIndex == IndexInit /\ [][IndexNext]_vars

(***************************************************************************)
(* Properties of the table and its histograms.                             *)
(***************************************************************************)
IntColumns(t) == {k \in 1..Len(t.columns) : t.columns[k].type = "INTEGER"}

RowsMatchColumns(t) ==
    \A r \in 1..Len(t.data) :
        /\ Len(t.data[r]) = Len(t.columns)
        /\ \A k \in 1..Len(t.columns) : t.data[r][k].type = t.columns[k].type

\* C1: after any sequence of addColumn and addRow calls every stored row has
\* as many fields as the table has columns, and field k has the tag of
\* column k.
C1_RowsMatchColumns == RowsMatchColumns(tbl)

\* C2: an addRow call that throws leaves the table as it was: no row is
\* appended and no histogram counter or total changes.
C2_FailedAddRowLeavesTable ==
    (last.op = "addRow" /\ ~last.ok) => tbl = pre

\* C3 as claimed: after successful addRow calls only, on a table whose columns
\* were all added first and before any recompute, the histogram total of
\* every integer column is the number of stored rows.
C3_TotalEqualsRowCount ==
    (nfail = 0 /\ ~recomputed /\ RowsMatchColumns(tbl)) =>
        \A k \in IntColumns(tbl) :
            tbl.columns[k].hist.totalValues = Len(tbl.data)

\* the stored rows whose value in column k lies in the bounds the column's
\* histogram is created with
RowsInInitialBounds(t, k) ==
    {r \in 1..Len(t.data) :
        /\ k <= Len(t.data[r])
        /\ t.data[r][k].type = "INTEGER"
        /\ t.data[r][k].i >= IntHistMin
        /\ t.data[r][k].i <= IntHistMax}

\* C3 as amended: after successful addRow calls only and before any
\* recompute, the histogram total of every integer column is the number of
\* stored rows whose value in that column lies in [0, 1000000].
C3_TotalEqualsInRangeRows ==
    (nfail = 0 /\ ~recomputed) =>
        \A k \in IntColumns(tbl) :
            tbl.columns[k].hist.totalValues = Cardinality(RowsInInitialBounds(tbl, k))

\* two rows were added to an integer column, one below the initial bounds
\* and one at their upper end
C3_Witness ==
    /\ nfail = 0 /\ ~recomputed /\ last.op = "addRow"
    /\ Len(tbl.columns) >= 1 /\ tbl.columns[1].type = "INTEGER"
    /\ Len(tbl.data) = 2
    /\ tbl.data[1][1].i = -1
    /\ tbl.data[2][1].i = IntHistMax

\* C4: after recomputeHistogramsForIntegerColumn, for every integer column
\* the bucket counters sum to the number of rows and the histogram's bounds
\* are the minimum and the maximum of the column's stored values.
C4_RecomputeExact ==
    last.op = "recompute" =>
        \A k \in IntColumns(tbl) :
            LET h == tbl.columns[k].hist
                vals == {tbl.data[r][k].i : r \in 1..Len(tbl.data)}
            IN /\ BucketTotal(h) = Len(tbl.data)
               /\ h.minVal \in vals /\ \A v \in vals : h.minVal <= v
               /\ h.maxVal \in vals /\ \A v \in vals : v <= h.maxVal

\* a selectivity that is a number of [0, 1]
InUnitInterval(r) == r.ok /\ r.den > 0 /\ 0 <= r.num /\ r.num <= r.den

\* C5: every selectivity an integer histogram returns for EQUALS,
\* GREATER_THAN and LESS_THAN is a number of [0, 1], and the three sum to at
\* least 1, whatever was added to the histogram (nothing included) and
\* whatever the operand.
C5_SelectivityInUnitInterval ==
    (est.col # 0 /\ tbl.columns[est.col].type = "INTEGER"
                 /\ est.operand.type = "INTEGER") =>
        /\ InUnitInterval(est.eq)
        /\ InUnitInterval(est.gt)
        /\ InUnitInterval(est.lt)
        /\ est.lt.num + est.eq.num + est.gt.num >= est.eq.den

(***************************************************************************)
(* Properties of the executor.                                             *)
(***************************************************************************)
\* the columns of a table without their histograms
ColumnSpecs(t) ==
    [k \in 1..Len(t.columns) |->
        ColSpec(t.columns[k].name, t.columns[k].tableName, t.columns[k].type)]

\* the first column of t with that name and owning table
ColumnOf(t, name, tableName) ==
    CHOOSE k \in 1..Len(t.columns) :
        /\ t.columns[k].name = name /\ t.columns[k].tableName = tableName
        /\ \A j \in 1..(k - 1) :
              ~(t.columns[j].name = name /\ t.columns[j].tableName = tableName)

\* a precedes b in dictionary order: they agree up to some position where a
\* ends or has the smaller character
LexLess(a, b) ==
    \E k \in 1..Len(b) :
        /\ Len(a) >= k - 1
        /\ \A j \in 1..(k - 1) : a[j] = b[j]
        /\ (Len(a) = k - 1 \/ a[k] < b[k])

\* "value op literal" for two fields of the same tag
Satisfies(v, op, lit) ==
    LET less == IF v.type = "INTEGER" THEN v.i < lit.i ELSE LexLess(v.s, lit.s)
        more == IF v.type = "INTEGER" THEN lit.i < v.i ELSE LexLess(lit.s, v.s)
    IN /\ v.type = lit.type
       /\ CASE op \in {"EQUALS", "="} -> v = lit
            [] op \in {"NOT_EQUALS"} -> v # lit
            [] op \in {"LESS_THAN", "<"} -> less
            [] op \in {"LESS_THAN_OR_EQ", "<="} -> less \/ v = lit
            [] op \in {"GREATER_THAN", ">"} -> more
            [] op \in {"GREATER_THAN_OR_EQ", ">="} -> more \/ v = lit

\* the n-th smallest member of a set of numbers
NthOf(M, n) == CHOOSE r \in M : Cardinality({q \in M : q <= r}) = n

\* C6: the output of a filter step has the columns of its input, and its rows
\* are exactly the input rows whose value in the filter's column satisfies
\* "value op literal", in input order, for each of the six operators; an "="
\* filter on a value present in the column yields at least one row.
C6_FilterKeepsMatchingRows ==
    (lastStep.kind \in {"filter", "filterOperator"} /\ lastStep.ok) =>
        LET in == heap[lastStep.in1]
            out == heap[lastStep.out]
            c == lastStep.comp
            k == ColumnOf(in, c.lhsColumn, c.lhsTable)
            M == {r \in 1..Len(in.data) : Satisfies(in.data[r][k], c.predicate, c.rhsValue)}
        IN /\ ColumnSpecs(out) = ColumnSpecs(in)
           /\ Len(out.data) = Cardinality(M)
           /\ \A j \in 1..Len(out.data) : out.data[j] = in.data[NthOf(M, j)]
           /\ (/\ c.predicate \in {"EQUALS", "="}
               /\ \E r \in 1..Len(in.data) : in.data[r][k] = c.rhsValue)
              => Len(out.data) >= 1

\* an "=" filter kept the first and the third of three rows
C6_Witness ==
    /\ lastStep.kind = "filter" /\ lastStep.ok
    /\ lastStep.comp.predicate = "EQUALS"
    /\ Len(heap[lastStep.in1].data) = 3
    /\ Len(heap[lastStep.out].data) = 2
    /\ heap[lastStep.out].data[2] = heap[lastStep.in1].data[3]

\* C7: the output of a join step has one row per pair (l, r) of a left and a
\* right row with equal join fields; the row is l's fields followed by r's,
\* and the rows are ordered by left row first, right row second.
C7_JoinIsNestedLoop ==
    (lastStep.kind = "join" /\ lastStep.ok) =>
        LET l == heap[lastStep.in1]
            r == heap[lastStep.in2]
            out == heap[lastStep.out]
            c == lastStep.comp
            li == ColumnOf(l, c.lhsColumn, c.lhsTable)
            ri == ColumnOf(r, c.rhsColumn, c.rhsTable)
            P == {p \in (1..Len(l.data)) \X (1..Len(r.data)) :
                    l.data[p[1]][li] = r.data[p[2]][ri]}
            UpTo(p) == {q \in P : q[1] < p[1] \/ (q[1] = p[1] /\ q[2] <= p[2])}
            Nth(n) == CHOOSE p \in P : Cardinality(UpTo(p)) = n
        IN /\ ColumnSpecs(out) = ColumnSpecs(l) \o ColumnSpecs(r)
           /\ Len(out.data) = Cardinality(P)
           /\ \A n \in 1..Len(out.data) :
                 out.data[n] = l.data[Nth(n)[1]] \o r.data[Nth(n)[2]]

\* two catalog tables of three rows each were joined into five rows
C7_Witness ==
    /\ lastStep.kind = "join" /\ lastStep.ok
    /\ Len(heap[lastStep.in1].data) = 3
    /\ Len(heap[lastStep.in2].data) = 3
    /\ lastStep.in1 # lastStep.in2
    /\ Len(heap[lastStep.out].data) = 5

\* C8: once executeQuery has returned or thrown, every catalog table has the
\* columns, rows and histograms it was loaded with.
C8_CatalogUnchanged ==
    xstate \in {"done", "aborted"} =>
        /\ DOMAIN schema = DOMAIN schema0
        /\ \A n \in DOMAIN schema : heap[schema[n]] = schema0[n]

\* executeQuery threw at its second step, after the first one made a table
C8_Witness ==
    /\ xstate = "aborted"
    /\ ip = 3
    /\ Len(heap) = 4
    /\ tableMap # <<>>

(***************************************************************************)
(* Properties of the plans' results.                                       *)
(***************************************************************************)
\* a row as the set of its values labelled by table and column
LogicalRow(t, r) ==
    {<<t.columns[k].tableName, t.columns[k].name, t.data[r][k]>> :
        k \in 1..Len(t.columns)}

LogicalRowSet(t) == {LogicalRow(t, r) : r \in 1..Len(t.data)}

\* how often a row occurs in a table
Occurrences(t, row) == Cardinality({r \in 1..Len(t.data) : t.data[r] = row})

SameMultiset(a, b) ==
    \A row \in {a.data[r] : r \in 1..Len(a.data)} \cup {b.data[r] : r \in 1..Len(b.data)} :
        Occurrences(a, row) = Occurrences(b, row)

\* C9: the results the five plans of a query write when executed have the
\* same logical row set.
C9_PlansAgree ==
    Len(results) = 5 =>
        \A i, j \in 1..5 : LogicalRowSet(results[i]) = LogicalRowSet(results[j])

\* C10: for a query with one scalar filter on a table and one join of that
\* table with another, the result of the JoinsFirst plan (join, then filter)
\* and the result of the FiltersFirst plan (filter, then join) are equal as
\* multisets of rows.
C10_FilterJoinCommute ==
    (/\ Len(query.scalarFilters) = 1
     /\ Len(query.joins) = 1
     /\ query.scalarFilters[1].lhsTable
           \in {query.joins[1].lhsTable, query.joins[1].rhsTable}
     /\ Len(results) >= 2) =>
        SameMultiset(results[1], results[2])

(***************************************************************************)
(* Properties of the planners.                                             *)
(***************************************************************************)
\* C11: for every query the planners have priced, the DP plan's estimated
\* cost is at most the TryAllJoinOrder (exhaustive permutation) plan's, and
\* that is at most the Greedy plan's.
C11_DPLeqTryAllLeqGreedy ==
    plans # <<>> =>
        /\ CostLeq(plans[5].totalCost, plans[3].totalCost)
        /\ CostLeq(plans[3].totalCost, plans[4].totalCost)

\* the selectivity the planners estimate for a scalar filter is below 0.5
Selective(h, sch, filter) ==
    LET e == estimateFilterCostAndSelectivity(
                 h, sch, filter.lhsTable, filter.lhsColumn, filter.predicate,
                 filter.rhsValue).selectivity
    IN 2 * e.num < e.den

AllSelective(h, sch, q) ==
    \A i \in DOMAIN q.scalarFilters : Selective(h, sch, q.scalarFilters[i])

DeclaredRank(name) ==
    CASE name = "FiltersFirst" -> 1
      [] name = "JoinsFirst" -> 2
      [] name = "TryAllJoinOrderPlan" -> 3
      [] name = "GreedyJoinPlan" -> 4
      [] name = "DPJoinPlan" -> 5

\* C13: the plan getBestPlan selects costs no more than any generated plan,
\* and of the plans with that cost it is the one declared earliest, in the
\* order FiltersFirst, JoinsFirst, exhaustive permutation, Greedy, DP.
C13_BestPlanIsEarliestCheapest ==
    bestPlan # 0 =>
        \A j \in DOMAIN plans :
            /\ CostLeq(plans[bestPlan].totalCost, plans[j].totalCost)
            /\ plans[j].totalCost = plans[bestPlan].totalCost =>
                 DeclaredRank(plans[bestPlan].name) <= DeclaredRank(plans[j].name)

(***************************************************************************)
(* Properties of the execution driver's working map.                       *)
(***************************************************************************)
\* C20: a Filter step on table t that returns binds t, and no other name, to
\* the table it made; a Join step on (l, r) that returns binds l and r to the
\* one table it made and no other name; either step reads its inputs through
\* the map, so a step naming l or r after a join works on the joined table.
C20_StepRebindsOnlyItsTables ==
    [][(xstate = "running" /\ ip' = ip + 1 /\ lastStep'.ok) =>
         LET c == order[ip]
             named == IF c.kind = "filter" THEN {c.lhsTable}
                      ELSE {c.lhsTable, c.rhsTable}
         IN /\ DOMAIN tableMap' = DOMAIN tableMap
            /\ \A n \in named :
                 /\ tableMap'[n] \notin 1..Len(heap)
                 /\ tableMap'[n] \in 1..Len(heap')
                 /\ tableMap'[n] = lastStep'.out
            /\ \A n \in DOMAIN tableMap \ named : tableMap'[n] = tableMap[n]
            /\ lastStep'.in1 = tableMap[c.lhsTable]
            /\ c.kind = "join" => lastStep'.in2 = tableMap[c.rhsTable]
            /\ c.kind = "filter" =>
                 heap'[lastStep'.out].name =
                   heap[tableMap[c.lhsTable]].name \o "_filtered"]_vars

\* a join of A and B has returned while the map also holds C, and a second
\* step is still to run
C20_Witness ==
    /\ xstate = "running"
    /\ lastStep.kind = "join"
    /\ lastStep.ok
    /\ ip = 2
    /\ DOMAIN tableMap = {"A", "B", "C"}
    /\ tableMap["A"] = lastStep.out
    /\ tableMap["B"] = lastStep.out
    /\ tableMap["C"] = schema["C"]

(***************************************************************************)
(* Properties of ProjectOperator.                                          *)
(***************************************************************************)
\* the positions of the child's columns whose name is requested, ascending
RequestedPositions(t, columnNames) ==
    SetInOrder({k \in 1..Len(t.columns) :
                  \E i \in 1..Len(columnNames) : t.columns[k].name = columnNames[i]})

\* C19: ProjectOperator returns for every child and every column list, and
\* the table it returns has the child's columns whose name is in the list, in
\* the child's order, and rows whose values are the child's values at those
\* columns in the same order.
C19_ProjectKeepsChildOrder ==
    lastStep.kind = "projectOperator" =>
        /\ lastStep.ok
        /\ LET t == heap[lastStep.in1]
               out == heap[lastStep.out]
               pos == RequestedPositions(t, lastStep.comp.columnNames)
           IN /\ ColumnSpecs(out) = [k \in 1..Len(pos) |-> ColumnSpecs(t)[pos[k]]]
              /\ out.data = [r \in 1..Len(t.data) |->
                               [k \in 1..Len(pos) |-> t.data[r][pos[k]]]]

(***************************************************************************)
(* Properties of parsing and validation.                                   *)
(***************************************************************************)
\* an integer literal of the query language: an optional minus sign and digits
IsIntegerLiteral(v) ==
    LET body == IF Len(v) > 0 /\ v[1] = 45 THEN SubSeq(v, 2, Len(v)) ELSE v
    IN Len(body) > 0 /\ \A k \in 1..Len(body) : body[k] \in 48..57

\* the filter compares a column of one tag with a literal of the other
CrossTag(t, f) ==
    \E k \in 1..Len(t.columns) :
        /\ t.columns[k].name = f.columnName
        /\ t.columns[k].type = IF IsIntegerLiteral(f.value) THEN "STRING" ELSE "INTEGER"

\* C18: once parse has run on a query with a scalar filter whose literal has
\* the other tag than its column, it has failed with TypeMismatch, raised by
\* validation, and no plan has been generated and no step executed.
C18_CrossTagFilterIsTypeMismatch ==
    (/\ parsed \notin {"none", "pending"}
     /\ \E i \in 1..Len(queryLines.scalarFilters) :
           LET f == queryLines.scalarFilters[i]
           IN f.tableName \in DOMAIN schema /\ CrossTag(heap[schema[f.tableName]], f))
    => /\ parsed = "TypeMismatch"
       /\ plans = <<>>
       /\ xstate = "idle"

(***************************************************************************)
(* Properties of the IKKBZ optimizer.                                      *)
(***************************************************************************)
\* the relations of g and its edges, as sets
Nodes(g) == {g.relations[k].name : k \in 1..Len(g.relations)}
Edges(g) == {{g.conditions[c].left, g.conditions[c].right} : c \in 1..Len(g.conditions)}

\* the relations reachable from the set seen over the edges of g
RECURSIVE Reach(_, _)
Reach(g, seen) ==
    LET more == seen \cup {n \in Nodes(g) : \E x \in seen : {x, n} \in Edges(g)}
    IN IF more = seen THEN seen ELSE Reach(g, more)

Components(g) == {Reach(g, {n}) : n \in Nodes(g)}

\* a graph without self-loops and parallel edges has a cycle exactly when it
\* has more edges than a forest on its components has
HasCycle(g) ==
    Cardinality(Edges(g)) > Cardinality(Nodes(g)) - Cardinality(Components(g))

IsTree(g) == Cardinality(Components(g)) = 1 /\ ~HasCycle(g)

\* C14: optimizeJoinOrder on a graph with a cycle throws "IKKBZ requires an
\* acyclic join graph" and returns no ordering, in whichever component the
\* cycle lies.
C14_CycleIsRejected ==
    (optimized # NoOrder /\ HasCycle(graph)) =>
        optimized = [status |-> "AcyclicRequired", joinOrder |-> <<>>]

\* C15: optimizeJoinOrder on a connected acyclic graph returns an ordering
\* that holds every relation name once and nothing else, whose neighbours
\* in the ordering are joined by an edge of the graph.
C15_TreeOrderIsConnectedPermutation ==
    (optimized # NoOrder /\ IsTree(graph)) =>
        /\ optimized.status = "ok"
        /\ Len(optimized.joinOrder) = Cardinality(Nodes(graph))
        /\ {optimized.joinOrder[k] : k \in 1..Len(optimized.joinOrder)} = Nodes(graph)
        /\ \A k \in 1..(Len(optimized.joinOrder) - 1) :
             {optimized.joinOrder[k], optimized.joinOrder[k + 1]} \in Edges(graph)

(***************************************************************************)
(* Properties of the learned index.                                        *)
(***************************************************************************)
\* C16: a search in binary mode returns a position that holds the key when
\* the array has the key, and -1 when it has not.
C16_BinarySearchFindsPresentKeys ==
    lastSearch.type = "binary" =>
        LET data == learnedIndex.data
            present == \E i \in 1..Len(data) : data[i] = lastSearch.key
        IN IF present
           THEN /\ lastSearch.result \in 0..(Len(data) - 1)
                /\ DataAt(data, lastSearch.result) = lastSearch.key
           ELSE lastSearch.result = -1

\* C17: after any searches the counter is the number of loop iterations of
\* the last search alone, and it is at most 21 after a search in linear mode.
C17_OperationsCountLastSearch ==
    lastSearch.type # "none" =>
        /\ learnedIndex.operations = lastSearch.steps
        /\ lastSearch.type = "linear" => learnedIndex.operations <= 21

\* a linear search has used its ten steps to the left and one to the right
C17_Witness ==
    /\ lastSearch.type = "linear"
    /\ learnedIndex.operations = 11
    /\ lastSearch.result = -1

(***************************************************************************)
(* Properties of the steps the planners cost.                              *)
(***************************************************************************)
\* C21: in every plan, the cost charged for a filter step is n + n * sigma
\* where n is the size the plan's tableSizes holds for the filtered table
\* when the step is costed and sigma the step's selectivity, and the size
\* the table has after the step is floor(n * sigma) for that same n.
C21_FilterCostUsesCurrentSize ==
    \A i \in DOMAIN plans : \A k \in DOMAIN plans[i].executionSteps :
        LET step == plans[i].executionSteps[k]
            n == step.sizeRead
            sigma == step.selectivity
        IN step.kind = "Filter" =>
             /\ step.cost = Cost(n * sigma.den + n * sigma.num, sigma.den)
             /\ step.outputSize = (n * sigma.num) \div sigma.den

\* tableSizes after the first k steps of a list of steps, from the sizes
\* the plan started with: a filter leaves its output size, a join the smaller
\* of the two sizes for both tables
RECURSIVE SizesAfter(_, _, _)
SizesAfter(steps, k, sizes) ==
    IF k = 0 THEN sizes
    ELSE LET before == SizesAfter(steps, k - 1, sizes)
             step == steps[k]
         IN IF step.kind = "Filter"
            THEN MapPut(before, step.table, step.outputSize)
            ELSE LET smaller == Min2(SizeOf(before, step.join.lhsTable),
                                     SizeOf(before, step.join.rhsTable))
                 IN MapPut(MapPut(before, step.join.lhsTable, smaller),
                           step.join.rhsTable, smaller)

\* the lists of joins of a query that take each join at most once
JoinOrders(q) ==
    {[k \in 1..Len(ord) |-> q.joins[ord[k]]] :
       ord \in {s \in UNION {[1..n -> DOMAIN q.joins] : n \in 0..Len(q.joins)} :
                  \A a, b \in DOMAIN s : a # b => s[a] # s[b]}}

\* the summed cost of a list of joins when each join is costed at the sizes
\* the joins before it left
ReducedCost(joinOrder, sizes) ==
    JoinLoop(joinOrder, 1, [totalCost |-> Cost(0, 1), sizes |-> sizes,
                            steps |-> <<>>]).totalCost

\* C22: every planner, DP included, keeps a size map that starts at the
\* catalog sizes and after each join holds min(n_L, n_R) for both tables, and
\* costs every join (n_L + n_R) + 0.1 * n_L * n_R at the sizes of that map:
\* each join step of the four planners that list their joins reads the sizes
\* the steps before it left, and the join cost of the DP planner's complete
\* plan is the cost of some list of the query's joins costed that way.
C22_JoinsCostedAtReducedSizes ==
    plans # <<>> =>
        /\ \A i \in 1..4 : \A k \in DOMAIN plans[i].executionSteps :
             LET step == plans[i].executionSteps[k]
                 sizes == SizesAfter(plans[i].executionSteps, k - 1,
                                     InitialSizes(heap, schema, query.tables, 1, <<>>))
             IN step.kind = "Join" =>
                  /\ step.leftSize = SizeOf(sizes, step.join.lhsTable)
                  /\ step.rightSize = SizeOf(sizes, step.join.rhsTable)
                  /\ step.cost = Cost(10 * (step.leftSize + step.rightSize)
                                        + step.leftSize * step.rightSize, 10)
        /\ CompletePlans(query, plans[5].tableSizes) # {} =>
             \E joinOrder \in JoinOrders(query) :
                 plans[5].totalCost = ReducedCost(joinOrder, plans[5].tableSizes)

\* the summed cost of the first k of a list of steps
RECURSIVE CostOfSteps(_, _)
CostOfSteps(steps, k) ==
    IF k = 0 THEN Cost(0, 1)
    ELSE CostAdd(CostOfSteps(steps, k - 1), steps[k].cost)

\* the permutations of the join list of a query
JoinPermutations(q) == {jo \in JoinOrders(q) : Len(jo) = Len(q.joins)}

\* the sizes the filters of the query leave, from the catalog sizes
PostFilterSizes(steps, q) ==
    SizesAfter(steps, Len(q.scalarFilters),
               InitialSizes(heap, schema, q.tables, 1, <<>>))

\* the joins a plan lists after the filters of the query
JoinsListed(p, q) == SubSeq(p.order, Len(q.scalarFilters) + 1, Len(p.order))

\* C23: the TryAllJoinOrder (exhaustive permutation) plan lists the scalar
\* filters in input order and then one permutation of the query's joins (no
\* join when the query has none); the cost it reports beyond the filters'
\* is the summed cost of that permutation, costed with size updates from the
\* post-filter sizes, and no permutation of the joins has a smaller one.
C23_TryAllTakesCheapestPermutation ==
    plans # <<>> =>
        LET p == plans[3]
            nf == Len(query.scalarFilters)
            sizes == PostFilterSizes(p.executionSteps, query)
            listed == JoinsListed(p, query)
        IN /\ SubSeq(p.order, 1, nf) = query.scalarFilters
           /\ listed \in JoinPermutations(query)
           /\ p.totalCost = CostAdd(CostOfSteps(p.executionSteps, nf),
                                    ReducedCost(listed, sizes))
           /\ \A jo \in JoinPermutations(query) :
                CostLeq(ReducedCost(listed, sizes), ReducedCost(jo, sizes))

\* a priced query with two joins whose input order is not the cheapest: the
\* plan lists the joins in the other order
C23_Witness ==
    /\ plans # <<>>
    /\ Len(query.joins) = 2
    /\ JoinsListed(plans[3], query) # query.joins
    /\ CostLess(ReducedCost(JoinsListed(plans[3], query),
                            PostFilterSizes(plans[3].executionSteps, query)),
                ReducedCost(query.joins,
                            PostFilterSizes(plans[3].executionSteps, query)))

\* exactly one of the two tables of a join is in the set
ExactlyOneJoined(join, joinedTables) ==
    (join.lhsTable \in joinedTables) # (join.rhsTable \in joinedTables)

\* C24: every join the Greedy plan appends has, when it is chosen, exactly
\* one of its two tables in the joined set, and its cost at the sizes of that
\* moment is minimal among the remaining joins with exactly one table in the
\* joined set.
C24_GreedyJoinExtendsJoinedSet ==
    plans # <<>> =>
        \A k \in DOMAIN plans[4].executionSteps :
            LET step == plans[4].executionSteps[k]
            IN step.kind = "Join" =>
                 /\ ExactlyOneJoined(step.join, step.joinedTables)
                 /\ \A r \in DOMAIN step.remainingJoins :
                      ExactlyOneJoined(step.remainingJoins[r], step.joinedTables) =>
                        CostLeq(step.cost,
                                estimateJoinCostAndSelectivity(
                                    SizeOf(step.tableSizes,
                                           step.remainingJoins[r].lhsTable),
                                    SizeOf(step.tableSizes,
                                           step.remainingJoins[r].rhsTable)).cost)

\* C28: the cost the DP plan reports is the sum of the costs of the scalar
\* filters it applied plus the join cost of its best complete plan (no join
\* cost when dpTable has no complete plan).
C28_DPCostIncludesFilters ==
    plans # <<>> =>
        LET p == plans[5]
            complete == CompletePlans(query, p.tableSizes)
        IN p.totalCost =
             CostAdd(CostOfSteps(p.executionSteps, Len(p.executionSteps)),
                     IF complete = {} THEN Cost(0, 1)
                     ELSE (CHOOSE c \in complete : TRUE).cost)

\* C29: GreedyJoinPlan::generatePlan returns for every query, and the
\* components it lists are the scalar filters of the query in input order,
\* each once, followed by the joins of the query, each once.
C29_GreedyListsEveryStepOnce ==
    /\ xstate # "crashed"
    /\ plans # <<>> =>
         /\ SubSeq(plans[4].order, 1, Len(query.scalarFilters)) = query.scalarFilters
         /\ JoinsListed(plans[4], query) \in JoinPermutations(query)

(***************************************************************************)
(* Properties of a repeated generatePlan.                                  *)
(***************************************************************************)
\* C30: a call of generatePlan() on a plan object that has been generated
\* before leaves the list of components and the cost estimateCost() returns
\* as they were after the first call, for each of the five plan classes.
C30_GeneratePlanIsIdempotent ==
    [][\A i \in DOMAIN plans :
         (/\ plans[i].calls >= 1
          /\ plans'[i].calls = plans[i].calls + 1) =>
            /\ plans'[i].order = plans[i].order
            /\ plans'[i].totalCost = plans[i].totalCost]_vars

(***************************************************************************)
(* Properties of the executor's filter step and final table.               *)
(***************************************************************************)
\* C25: a filter step executed on a working table whose columns have none
\* with the step's column name and table name fails, whatever rows the
\* table holds, a table with no rows included.
C25_MissingColumnFilterFails ==
    (/\ lastStep.kind = "filter"
     /\ getColumnIndex(heap[lastStep.in1], lastStep.comp.lhsColumn,
                       lastStep.comp.lhsTable) = 0) =>
        ~lastStep.ok

\* the table names the steps of a list name
NamedTables(steps) ==
    {steps[k].lhsTable : k \in DOMAIN steps}
    \cup {steps[k].rhsTable : k \in {j \in DOMAIN steps : steps[j].kind = "join"}}

\* the names the joins of the list connect to a name of the set, the set
\* included
RECURSIVE JoinedTo(_, _)
JoinedTo(steps, names) ==
    LET more == names \cup
                {steps[k].rhsTable : k \in {j \in DOMAIN steps :
                     steps[j].kind = "join" /\ steps[j].lhsTable \in names}}
                \cup
                {steps[k].lhsTable : k \in {j \in DOMAIN steps :
                     steps[j].kind = "join" /\ steps[j].rhsTable \in names}}
    IN IF more = names THEN names ELSE JoinedTo(steps, more)

\* the joins of the list connect all the tables it names
JoinsConnectAll(steps) ==
    \A n \in NamedTables(steps) : JoinedTo(steps, {n}) = NamedTables(steps)

\* C27: when executeQuery has run a list of steps whose joins connect all
\* the tables the steps name, every name of the working map refers to one
\* and the same table (the same rows and columns), so the table reported as
\* final is that table whichever entry is taken.
C27_ConnectedStepsLeaveOneTable ==
    (xstate = "done" /\ JoinsConnectAll(order)) =>
        \A n, m \in DOMAIN tableMap : heap[tableMap[n]] = heap[tableMap[m]]

(***************************************************************************)
(* Property of the reads of the learned index.                             *)
(***************************************************************************)
\* C26: a search in linear mode reads the data array at positions 0 to
\* n - 1 only, for every ascending array of n >= 1 values, every key and
\* every predicted position.
C26_LinearSearchReadsInBounds ==
    lastSearch.type = "linear" =>
        \A pos \in lastSearch.reads : 0 <= pos /\ pos <= Len(learnedIndex.data) - 1

====
